---- MODULE Spec2Model ----
(***************************************************************************)
(* Streaming-event normalisation of the chat feature.                      *)
(*                                                                         *)
(*   backend  : MASStreamingClient.stream_events + stream_chat's           *)
(*              event_generator   (backend/app/api/routes/chat.py)         *)
(*   chat app : MASClient.stream_raw + normalize                           *)
(*              (chat-app/services/mas_client.py, mas_normalizer.py)       *)
(*                                                                         *)
(* A response text is a sequence of tokens.  A JSON payload is two tokens  *)
(* (its two halves), so that a network chunk can end in the middle of a    *)
(* payload; json.loads succeeds only on both halves of one value.          *)
(***************************************************************************)
EXTENDS Integers, Sequences, FiniteSets, TLC

(***************************************************************************)
(* JSON values as Python sees them after json.loads.  A string is a        *)
(* sequence of pieces so that lower() and substring tests can be computed. *)
(***************************************************************************)
Str(pieces) == [t |-> "str", s |-> pieces]
S(x) == Str(<<x>>)
EmptyStr == Str(<<>>)
Null == [t |-> "null"]
Num(n) == [t |-> "num", n |-> n]
Obj(f) == [t |-> "obj", o |-> f]
EmptyObj == Obj(<<>>)
List(q) == [t |-> "list", l |-> q]

IsObj(v) == v.t = "obj"
IsList(v) == v.t = "list"
IsStr(v) == v.t = "str"

\* `k in d` for a dict d
Has(v, k) == k \in DOMAIN v.o
\* d.get(k, default)
Get(v, k, default) == IF Has(v, k) THEN v.o[k] ELSE default
\* all(k in d for k in keys)
HasAll(v, keys) == \A k \in keys : Has(v, k)

\* Python truth value of a decoded JSON value
Truthy(v) ==
  CASE v.t = "str" -> v.s # <<>>
    [] v.t = "null" -> FALSE
    [] v.t = "num" -> v.n # 0
    [] v.t = "obj" -> DOMAIN v.o # {}
    [] v.t = "list" -> v.l # <<>>
    [] OTHER -> FALSE

\* v[:n] is defined for strings and lists only (TypeError/KeyError otherwise)
Sliceable(v) == v.t \in {"str", "list"}

\* str(v): a string is returned as it is, any other value is rendered
PyStr(v) == IF IsStr(v) THEN v ELSE S(ToString(v))

(***************************************************************************)
(* str.lower() and the analytics keyword test of the tool name.            *)
(***************************************************************************)
LowerPiece(p) ==
  CASE p = "Genie" -> "genie"
    [] p = "SALES" -> "sales"
    [] p = "Query" -> "query"
    [] p = "Analytics" -> "analytics"
    [] p = "Weather" -> "weather"
    [] OTHER -> p

Lower(v) == Str([i \in 1..Len(v.s) |-> LowerPiece(v.s[i])])

Keywords == {"genie", "analytics", "sales", "query"}

IsAnalyticsTool_Always(tool_name) == TRUE

\* any(keyword in tool_name.lower() for keyword in [...]); the pieces are
\* chosen so that a keyword never straddles two pieces
IsAnalyticsTool(tool_name) ==
  \E i \in 1..Len(Lower(tool_name).s) : Lower(tool_name).s[i] \in Keywords

(***************************************************************************)
(* The conversational-query service (Genie) as the extractor sees it:      *)
(* one conversation, whose list_messages may raise, and whose messages     *)
(* each have a status, a get_message that may raise, and attachment ids.   *)
(***************************************************************************)
CoordKeys == {"space_id", "conversation_id", "message_id", "attachment_id"}

Coords(space, conv, msg, att) ==
  Obj([spaceId |-> space, conversationId |-> conv, messageId |-> msg, attachmentId |-> att])

\* for attachment in attachments: attachment_id = getattr(attachment, 'id', None);
\* if attachment_id: return ...
RECURSIVE FirstAttachmentId(_, _)
FirstAttachmentId(attachments, i) ==
  IF i > Len(attachments) THEN Null
  ELSE IF Truthy(attachments[i]) THEN attachments[i]
  ELSE FirstAttachmentId(attachments, i + 1)

\* for message in reversed(list(messages)): ...
RECURSIVE ScanMessages(_, _, _, _)
RECURSIVE ScanMessages_StopsAtFirst(_, _, _, _)
ScanMessages_StopsAtFirst(service, i, space_id, conversation_id) ==
  IF i = 0 THEN [ref |-> Null, calls |-> <<>>]
  ELSE LET message == service.messages[i]
           call == [op |-> "get_message", id |-> message.id]
           attachment_id == FirstAttachmentId(message.attachments, 1)
       IN IF message.status # "COMPLETED"
          THEN ScanMessages_StopsAtFirst(service, i - 1, space_id, conversation_id)
          ELSE IF message.getRaises \/ ~Truthy(attachment_id)
          THEN [ref |-> Null, calls |-> <<call>>]
          ELSE [ref |-> Coords(space_id, conversation_id, S(message.id), attachment_id),
                calls |-> <<call>>]

ScanMessages(service, i, space_id, conversation_id) ==
  IF i = 0 THEN [ref |-> Null, calls |-> <<>>]
  ELSE LET message == service.messages[i]
           older == ScanMessages(service, i - 1, space_id, conversation_id)
           call == [op |-> "get_message", id |-> message.id]
           attachment_id == FirstAttachmentId(message.attachments, 1)
       IN IF message.status # "COMPLETED" THEN older
          ELSE IF message.getRaises \/ ~Truthy(attachment_id)
          THEN [ref |-> older.ref, calls |-> <<call>> \o older.calls]
          ELSE [ref |-> Coords(space_id, conversation_id, S(message.id), attachment_id),
                calls |-> <<call>>]

get_genie_coordinates_Partial(service, conversation_id, space_id) ==
  IF ~Truthy(space_id) THEN [ref |-> Null, calls |-> <<>>]
  ELSE LET call == [op |-> "list_messages", space |-> space_id, conv |-> conversation_id]
           known == space_id = service.space /\ conversation_id = service.conv
           scan == ScanMessages(service, Len(service.messages), space_id, conversation_id)
       IN IF ~known \/ service.listRaises
          THEN [ref |-> Coords(space_id, conversation_id, Null, Null), calls |-> <<call>>]
          ELSE [ref |-> IF scan.ref = Null THEN Coords(space_id, conversation_id, Null, Null)
                        ELSE scan.ref,
                calls |-> <<call>> \o scan.calls]

\* MASStreamingClient.get_genie_coordinates_from_conversation: the coordinates
\* (or None) and the remote calls made
get_genie_coordinates_from_conversation(service, conversation_id, space_id) ==
  IF ~Truthy(space_id) THEN [ref |-> Null, calls |-> <<>>]
  ELSE LET call == [op |-> "list_messages", space |-> space_id, conv |-> conversation_id]
           known == space_id = service.space /\ conversation_id = service.conv
       IN IF ~known \/ service.listRaises
          THEN [ref |-> Null, calls |-> <<call>>]
          ELSE LET scan == ScanMessages(service, Len(service.messages), space_id, conversation_id)
               IN [ref |-> scan.ref, calls |-> <<call>> \o scan.calls]

(***************************************************************************)
(* Chart-reference extraction of a tool-result frame (chat.py 336-438).    *)
(* Every step gives the value computed and whether an exception was        *)
(* raised; the exception handler at line 437 ends the extraction.          *)
(***************************************************************************)
NoRef == [raised |-> FALSE, ref |-> Null, meta |-> Null]
Raised == [raised |-> TRUE, ref |-> Null, meta |-> Null]

\* lines 366-374: query metadata of the first attachment
Pattern0Meta(genie_obj, ref) ==
  IF ~Has(genie_obj, "attachments") THEN [raised |-> FALSE, ref |-> ref, meta |-> Null]
  ELSE LET attachments == genie_obj.o["attachments"] IN
    \* genie_obj["attachments"][0].get("query")
    IF ~IsList(attachments) \/ attachments.l = <<>> THEN Raised
    ELSE IF ~IsObj(attachments.l[1]) THEN Raised
    ELSE LET query == Get(attachments.l[1], "query", Null) IN
      IF ~Truthy(query) THEN [raised |-> FALSE, ref |-> ref, meta |-> Null]
      ELSE IF ~IsObj(query) THEN Raised
      ELSE [raised |-> FALSE, ref |-> ref,
            meta |-> Obj([title |-> Get(query, "title", S("Query Result")),
                          description |-> Get(query, "description", Null),
                          query_text |-> Get(query, "query_text", Null)])]

\* lines 345-376: Pattern 0, a nested genie object with attachments
Pattern0(tool_output) ==
  IF ~(Has(tool_output, "genie") /\ IsObj(tool_output.o["genie"])) THEN NoRef
  ELSE LET genie_obj == tool_output.o["genie"] IN
    IF ~HasAll(genie_obj, {"space_id", "conversation_id", "message_id"}) THEN NoRef
    ELSE LET fromList == Has(genie_obj, "attachments") /\ IsList(genie_obj.o["attachments"])
                           /\ Len(genie_obj.o["attachments"].l) > 0
             first == IF fromList THEN genie_obj.o["attachments"].l[1] ELSE Null
         IN IF fromList /\ ~IsObj(first) THEN Raised
            ELSE LET listed == IF fromList THEN Get(first, "attachment_id", Null) ELSE Null
                     attachment_id == IF ~Truthy(listed)
                                      THEN Get(genie_obj, "attachment_id", Null)
                                      ELSE listed
                 IN IF ~Truthy(attachment_id) THEN NoRef
                    \* the log line slices attachment_id[:12]
                    ELSE IF ~Sliceable(attachment_id) THEN Raised
                    ELSE Pattern0Meta(genie_obj,
                           Coords(genie_obj.o["space_id"], genie_obj.o["conversation_id"],
                                  genie_obj.o["message_id"], attachment_id))

FlatCoords(d) ==
  Coords(d.o["space_id"], d.o["conversation_id"], d.o["message_id"], d.o["attachment_id"])

\* lines 378-417: Patterns 1, 2, 2b and 3, one if/elif chain that is entered
\* whatever Pattern 0 found.  assigned: genie_ref was written by the chain.
Patterns123(tool_output, service) ==
  IF HasAll(tool_output, CoordKeys)
  THEN [assigned |-> TRUE, ref |-> FlatCoords(tool_output), calls |-> <<>>]
  ELSE IF Has(tool_output, "result") /\ IsObj(tool_output.o["result"])
  THEN LET res == tool_output.o["result"] IN
       IF HasAll(res, CoordKeys)
       THEN [assigned |-> TRUE, ref |-> FlatCoords(res), calls |-> <<>>]
       ELSE IF Has(res, "conversation_id")
       THEN LET found == get_genie_coordinates_from_conversation(
                           service, res.o["conversation_id"], Get(res, "space_id", Null))
            IN [assigned |-> TRUE, ref |-> found.ref, calls |-> found.calls]
       ELSE [assigned |-> FALSE, ref |-> Null, calls |-> <<>>]
  ELSE IF Has(tool_output, "conversation_id")
  THEN LET found == get_genie_coordinates_from_conversation(
                      service, tool_output.o["conversation_id"], Get(tool_output, "space_id", Null))
       IN [assigned |-> TRUE, ref |-> found.ref, calls |-> found.calls]
  ELSE [assigned |-> FALSE, ref |-> Null, calls |-> <<>>]

\* lines 419-432: the chart.reference event of a resolved reference
ChartEvent(genie_ref, query_meta) ==
  [type |-> "chart.reference",
   genie |-> genie_ref,
   title |-> IF Truthy(query_meta) THEN Get(query_meta, "title", S("Query Result"))
             ELSE S("Query Result"),
   subtitle |-> IF Truthy(query_meta) THEN Get(query_meta, "description", S("Click to view chart"))
                ELSE S("Click to view chart"),
   query_text |-> IF Truthy(query_meta) THEN Get(query_meta, "query_text", Null) ELSE Null]

ExtractChart_Twice(tool_output, service) ==
  LET p0 == Pattern0(tool_output) IN
  IF p0.raised THEN [ev |-> <<>>, calls |-> <<>>]
  ELSE LET chain == Patterns123(tool_output, service)
           genie_ref == IF chain.assigned THEN chain.ref ELSE p0.ref
       IN [ev |-> (IF Truthy(p0.ref) THEN <<ChartEvent(p0.ref, p0.meta)>> ELSE <<>>)
                    \o (IF Truthy(genie_ref) THEN <<ChartEvent(genie_ref, p0.meta)>> ELSE <<>>),
           calls |-> chain.calls]

\* lines 336-440: what follows the tool.output of an analytics tool whose
\* output is a dict: the events yielded and the remote calls made
ExtractChart(tool_output, service) ==
  LET p0 == Pattern0(tool_output) IN
  IF p0.raised THEN [ev |-> <<>>, calls |-> <<>>]
  ELSE LET chain == Patterns123(tool_output, service)
           genie_ref == IF chain.assigned THEN chain.ref ELSE p0.ref
       IN [ev |-> IF Truthy(genie_ref) THEN <<ChartEvent(genie_ref, p0.meta)>> ELSE <<>>,
           calls |-> chain.calls]

(***************************************************************************)
(* Response text: tokens, lines and JSON decoding.                         *)
(***************************************************************************)
NL == [k |-> "nl"]
SP == [k |-> "sp"]
CR == [k |-> "cr"]
DataColon == [k |-> "data:"]
Colon == [k |-> ":"]
DoneMark == [k |-> "[DONE]"]
Junk == [k |-> "x"]
J1(v) == [k |-> "j1", v |-> v]
J2(v) == [k |-> "j2", v |-> v]

\* the text of a JSON value on the wire
Encode(v) == <<J1(v), J2(v)>>

IsSpace(tok) == tok \in {SP, CR, NL}

\* str.strip()
RECURSIVE LStrip(_)
LStrip(q) == IF q # <<>> /\ IsSpace(Head(q)) THEN LStrip(Tail(q)) ELSE q

RECURSIVE RStrip(_)
RStrip(q) ==
  IF q # <<>> /\ IsSpace(q[Len(q)]) THEN RStrip(SubSeq(q, 1, Len(q) - 1)) ELSE q

Strip(q) == LStrip(RStrip(q))

\* json.loads(data): the value, or JSONDecodeError
JsonLoads(data) ==
  LET body == Strip(data) IN
  IF Len(body) = 2 /\ body[1].k = "j1" /\ body[2].k = "j2" /\ body[1].v = body[2].v
  THEN [ok |-> TRUE, v |-> body[1].v]
  ELSE [ok |-> FALSE, v |-> Null]

\* position of the first "\n" of the buffer, 0 when there is none
RECURSIVE FirstNL(_, _)
FirstNL(q, i) == IF i > Len(q) THEN 0 ELSE IF q[i] = NL THEN i ELSE FirstNL(q, i + 1)

(***************************************************************************)
(* Classification of one decoded frame (chat.py 272-479).                  *)
(* ev: the event yielded first (at most one); extract: the frame goes on   *)
(* with chart extraction on tool_output after that yield.                  *)
(***************************************************************************)
Nothing == [ev |-> <<>>, extract |-> FALSE, tool_output |-> Null]
Only(e) == [ev |-> <<e>>, extract |-> FALSE, tool_output |-> Null]

TextDelta(delta) == [type |-> "text.delta", delta |-> delta]
ToolCall(name, args) == [type |-> "tool.call", name |-> name, args |-> args]
ToolOutput(name, output) == [type |-> "tool.output", name |-> name, output |-> output]
ErrorEvent(message) == [type |-> "error", message |-> message]

\* lines 278-285
OnOutputTextDelta(event) ==
  LET delta == Get(event, "delta", EmptyStr) IN
  IF Truthy(delta) /\ Sliceable(delta) THEN Only(TextDelta(delta)) ELSE Nothing

\* lines 288-310
OnOutputItemDone(event) ==
  LET item == Get(event, "item", EmptyObj) IN
  IF ~IsObj(item) THEN Nothing
  ELSE IF Get(item, "type", EmptyStr) = S("function_call")
  THEN Only(ToolOutput(Get(item, "name", S("unknown")), S("Complete")))
  ELSE Nothing

\* lines 313-440
OnToolResult(event) ==
  LET result == Get(event, "result", EmptyObj) IN
  IF ~IsObj(result) THEN Nothing
  ELSE LET tool_name == Get(result, "name", S("agent"))
           tool_output == Get(result, "output", S("Complete"))
       IN [ev |-> <<ToolOutput(tool_name, PyStr(tool_output))>>,
           \* tool_name.lower() raises on a name that is not a string
           extract |-> IsStr(tool_name) /\ IsAnalyticsTool(tool_name) /\ IsObj(tool_output),
           tool_output |-> tool_output]

\* lines 443-452
OnChoices(event) ==
  LET choices == event.o["choices"] IN
  IF ~IsList(choices) THEN Nothing
  ELSE LET choice == choices.l[1] IN
    IF ~(IsObj(choice) /\ Has(choice, "delta")) THEN Nothing
    ELSE LET d == choice.o["delta"] IN
      IF ~(IsObj(d) /\ Has(d, "content")) THEN Nothing
      ELSE LET content == d.o["content"] IN
        IF Truthy(content) /\ Sliceable(content) THEN Only(TextDelta(content)) ELSE Nothing

\* lines 455-470
OnOutputItemAdded(event) ==
  LET item == Get(event, "item", EmptyObj) IN
  IF ~IsObj(item) THEN Nothing
  ELSE IF Get(item, "type", EmptyStr) = S("function_call")
  THEN Only(ToolCall(Get(item, "name", S("unknown")), Get(item, "arguments", EmptyObj)))
  ELSE Nothing

Classify_PassesUnknown(event) ==
  IF ~IsObj(event) THEN Nothing
  ELSE LET event_type == Get(event, "type", EmptyStr) IN
    IF event_type = S("response.output_text.delta") THEN OnOutputTextDelta(event)
    ELSE IF event_type = S("response.output_item.done") THEN OnOutputItemDone(event)
    ELSE IF event_type \in {S("response.function_call_result"), S("response.tool_result")}
    THEN OnToolResult(event)
    ELSE IF Has(event, "choices") /\ Truthy(event.o["choices"]) THEN OnChoices(event)
    ELSE IF event_type = S("response.output_item.added") THEN OnOutputItemAdded(event)
    ELSE IF event_type \in {S("response.created"), S("response.done")} THEN Nothing
    ELSE Only([raw |-> event])

Classify_AddedFirst(event) ==
  IF ~IsObj(event) THEN Nothing
  ELSE LET event_type == Get(event, "type", EmptyStr) IN
    IF event_type = S("response.output_text.delta") THEN OnOutputTextDelta(event)
    ELSE IF event_type = S("response.output_item.done") THEN OnOutputItemDone(event)
    ELSE IF event_type \in {S("response.function_call_result"), S("response.tool_result")}
    THEN OnToolResult(event)
    ELSE IF event_type = S("response.output_item.added") THEN OnOutputItemAdded(event)
    ELSE IF Has(event, "choices") /\ Truthy(event.o["choices"]) THEN OnChoices(event)
    ELSE Nothing

\* the if/elif cascade of lines 278-479 on a decoded payload
Classify(event) ==
  IF ~IsObj(event) THEN Nothing
  ELSE LET event_type == Get(event, "type", EmptyStr) IN
    IF event_type = S("response.output_text.delta") THEN OnOutputTextDelta(event)
    ELSE IF event_type = S("response.output_item.done") THEN OnOutputItemDone(event)
    ELSE IF event_type \in {S("response.function_call_result"), S("response.tool_result")}
    THEN OnToolResult(event)
    ELSE IF Has(event, "choices") /\ Truthy(event.o["choices"]) THEN OnChoices(event)
    ELSE IF event_type = S("response.output_item.added") THEN OnOutputItemAdded(event)
    ELSE Nothing

\* lines 259-272: what one complete line is
\*   "blank" nothing but white space
\*   "other" not a data line
\*   "done"  the [DONE] marker
\*   "bad"   a data line whose payload json.loads rejects
\*   "frame" a data line with a decoded payload
LineKind(line) ==
  IF Strip(line) = <<>> THEN [kind |-> "blank", v |-> Null]
  ELSE IF ~(Len(line) >= 2 /\ line[1] = DataColon /\ line[2] = SP)
  THEN [kind |-> "other", v |-> Null]
  ELSE LET data == SubSeq(line, 3, Len(line)) IN
    IF data = <<DoneMark>> THEN [kind |-> "done", v |-> Null]
    ELSE IF JsonLoads(data).ok THEN [kind |-> "frame", v |-> JsonLoads(data).v]
    ELSE [kind |-> "bad", v |-> Null]

\* lines 481-483: a payload that does not decode is logged and skipped
OnJSONDecodeError_Yields == Only(ErrorEvent(S("JSON decode error")))
OnJSONDecodeError == Nothing

\* what one complete line yields first
HandleLine(lk) ==
  IF lk.kind = "frame" THEN Classify(lk.v)
  ELSE IF lk.kind = "bad" THEN OnJSONDecodeError
  ELSE Nothing

(***************************************************************************)
(* State.                                                                  *)
(***************************************************************************)
VARIABLES
  prog,     \* the program this run is of: "backend" or "chatapp"
  text,     \* the response text the upstream will send (input)
  env,      \* transport environment (input)
  service,  \* the conversational-query service (input)
  pc,       \* position of the reader: start, read, drain, extract, closed, raised,
            \* aborted (closed at a suspension point before its end)
  pos,      \* number of tokens of text received so far
  buffer,   \* stream_events: the line buffer
  cur,      \* stream_events: tool output whose chart extraction is pending
  events,   \* the events yielded so far
  trace,    \* history: per complete line handled, what it was and what it gave
  gpc,      \* event_generator: run, done, gone (stopped iterating)
  taken,    \* event_generator: number of events received from stream_events
  body,     \* event_generator: the response body lines sent
  cuts,     \* history: a chunk has ended inside a line / inside a JSON payload
  sess,     \* two concurrent calls of stream_events on the shared mas_client
  web,      \* main.py: the schema manifest cache, the clock and the last response
  renderer, \* on_message: the ChainlitStream of the request and what it did
  chat      \* _build_messages_with_history: its inputs and the list it returned

vars ==
  <<prog, text, env, service, pc, pos, buffer, cur, events, trace, gpc, taken, body, cuts, sess,
    web, renderer, chat>>

\* what the actions of a single run leave alone
given == <<prog, text, env, service, sess, web, chat>>
inputs == <<given, renderer>>

FailPrefix == "Failed to stream from MAS: "

TransportFailure_IgnoresStatus(e) ==
  IF ~e.host THEN "Databricks workspace host not configured"
  ELSE IF ~e.creds THEN "Databricks Apps OAuth credentials not found in environment"
  ELSE IF ~e.token THEN "token exchange failed"
  ELSE ""

\* chat.py 164-245: the first transport step that fails, "" when none does
TransportFailure(e) ==
  IF ~e.host THEN "Databricks workspace host not configured"
  ELSE IF ~e.creds THEN "Databricks Apps OAuth credentials not found in environment"
  ELSE IF ~e.token THEN "token exchange failed"
  ELSE IF e.status \notin 200..299 THEN "HTTP status error"
  ELSE ""

\* the while loop of line 256 goes on as long as the buffer holds a "\n"
AfterLine(buf) == IF FirstNL(buf, 1) = 0 THEN "read" ELSE "drain"

\* lines 260, 268, 483, 486: whatever the line was, the loop continues
NextPc_DoneBreaks(kind, rest) == IF kind = "done" THEN "closed" ELSE AfterLine(rest)
NextPc_DoneLeavesLoop(kind, rest) == IF kind = "done" THEN "read" ELSE AfterLine(rest)
NextPc(kind, rest) == AfterLine(rest)

\* line 253: buffer += chunk
Accumulate_Overwrite(buf, chunk) == chunk
Accumulate(buf, chunk) == buf \o chunk

\* the generator runs only while its consumer is waiting for the next event
Pulled == prog = "backend" /\ gpc = "run" /\ taken = Len(events)

(***************************************************************************)
(* stream_events (chat.py 135-493).                                        *)
(***************************************************************************)
\* lines 145-248: up to the open response; a failure goes to the handler of
\* line 488, which yields the error event and ends the generator
Start ==
  /\ Pulled /\ pc = "start"
  /\ IF TransportFailure(env) # ""
     THEN /\ events' = Append(events, ErrorEvent(Str(<<FailPrefix, TransportFailure(env)>>)))
          /\ pc' = "closed"
     ELSE /\ events' = events
          /\ pc' = "read"
  /\ UNCHANGED <<inputs, pos, buffer, cur, trace, gpc, taken, body, cuts>>

\* lines 252-253: the next chunk of text, of any size, is appended to the buffer
RecvChunk ==
  /\ Pulled /\ pc = "read" /\ pos < Len(text)
  /\ \E n \in 1..(Len(text) - pos) :
       /\ buffer' = Accumulate(buffer, SubSeq(text, pos + 1, pos + n))
       /\ pos' = pos + n
       /\ pc' = AfterLine(buffer')
       /\ cuts' = [line |-> cuts.line \/ (pos + n < Len(text) /\ text[pos + n] # NL),
                   json |-> cuts.json \/ text[pos + n].k = "j1"]
  /\ UNCHANGED <<inputs, cur, events, trace, gpc, taken, body>>

\* lines 256-486: one complete line is cut off the buffer and handled, up to
\* its first yield
ProcessLine ==
  /\ Pulled /\ pc = "drain"
  /\ LET i == FirstNL(buffer, 1)
         line == SubSeq(buffer, 1, i - 1)
         rest == SubSeq(buffer, i + 1, Len(buffer))
         lk == LineKind(line)
         c == HandleLine(lk)
     IN /\ buffer' = rest
        /\ events' = events \o c.ev
        /\ trace' = Append(trace, [line |-> line, kind |-> lk.kind, v |-> lk.v,
                                   ev |-> c.ev, calls |-> <<>>])
        /\ IF c.extract
           THEN pc' = "extract" /\ cur' = c.tool_output
           ELSE pc' = NextPc(lk.kind, rest) /\ cur' = cur
  /\ UNCHANGED <<inputs, pos, gpc, taken, body, cuts>>

\* lines 336-440: after the tool.output was taken, the chart extraction of the
\* same frame, with its secondary lookup
Extract ==
  /\ Pulled /\ pc = "extract"
  /\ LET x == ExtractChart(cur, service)
         n == Len(trace)
     IN /\ events' = events \o x.ev
        /\ trace' = [trace EXCEPT ![n].ev = @ \o x.ev, ![n].calls = x.calls]
  /\ cur' = Null
  /\ pc' = AfterLine(buffer)
  /\ UNCHANGED <<inputs, pos, buffer, gpc, taken, body, cuts>>

\* line 252 raises (connection lost, timeout): handler of line 488
ReadFails ==
  /\ Pulled /\ pc = "read"
  /\ events' = Append(events, ErrorEvent(Str(<<FailPrefix, "read error">>)))
  /\ pc' = "closed"
  /\ UNCHANGED <<inputs, pos, buffer, cur, trace, gpc, taken, body, cuts>>

EndOfResponse_FlushesTail ==
  /\ Pulled /\ pc = "read" /\ pos = Len(text)
  /\ events' = events \o HandleLine(LineKind(buffer)).ev
  /\ buffer' = <<>>
  /\ pc' = "closed"
  /\ UNCHANGED <<inputs, pos, cur, trace, gpc, taken, body, cuts>>

\* line 252: the response has ended; what is left in the buffer is dropped
EndOfResponse ==
  /\ Pulled /\ pc = "read" /\ pos = Len(text)
  /\ pc' = "closed"
  /\ UNCHANGED <<inputs, pos, buffer, cur, events, trace, gpc, taken, body, cuts>>

(***************************************************************************)
(* stream_chat.event_generator (chat.py 526-545).                          *)
(***************************************************************************)
EventLine(e) == [k |-> "event", json |-> e]
DoneLine == [k |-> "done", json |-> Null]

\* lines 531-533: the next event is serialised and sent
Forward ==
  /\ prog = "backend" /\ gpc = "run" /\ taken < Len(events)
  /\ body' = Append(body, EventLine(events[taken + 1]))
  /\ taken' = taken + 1
  /\ UNCHANGED <<inputs, pc, pos, buffer, cur, events, trace, gpc, cuts>>

\* lines 533, 539-545: forwarding or json.dumps raises; the handler sends one
\* error line and the generator returns
ForwardFails ==
  /\ prog = "backend" /\ gpc = "run" /\ taken < Len(events)
  /\ body' = Append(body, EventLine(ErrorEvent(Str(<<"Streaming failed: ", "exception">>))))
  /\ gpc' = "done"
  /\ UNCHANGED <<inputs, pc, pos, buffer, cur, events, trace, taken, cuts>>

\* lines 535-537: stream_events is exhausted, the done signal is sent
SendDone ==
  /\ prog = "backend" /\ gpc = "run" /\ pc = "closed" /\ taken = Len(events)
  /\ body' = Append(body, DoneLine)
  /\ gpc' = "done"
  /\ UNCHANGED <<inputs, pc, pos, buffer, cur, events, trace, taken, cuts>>

(***************************************************************************)
(* The consumer stops iterating.                                           *)
(***************************************************************************)
HandlerCatches_Base(signal) == TRUE

\* chat.py 484, 488: both handlers are `except Exception`; the signals that
\* close a suspended generator (GeneratorExit, CancelledError) are not
\* Exceptions
HandlerCatches(signal) == signal = "Exception"

\* the request is cancelled (the client went away) while event_generator
\* waits for stream_events or between two events it forwards
Abandon ==
  /\ prog = "backend" /\ gpc = "run" /\ pc # "start"
  /\ gpc' = "gone"
  /\ UNCHANGED <<inputs, pc, pos, buffer, cur, events, trace, taken, body, cuts>>

\* the suspended stream_events is closed: the signal is raised at its
\* suspension point (line 252 or a yield) and leaves through the two
\* `async with` blocks of lines 238-246, which close the response and the
\* HTTP client; a handler that caught it would yield its error event
Finalize ==
  /\ prog = "backend" /\ gpc # "run" /\ pc \in {"read", "drain", "extract"}
  /\ events' = IF HandlerCatches("GeneratorExit")
                THEN Append(events, ErrorEvent(Str(<<FailPrefix, "GeneratorExit">>)))
                ELSE events
  /\ pc' = "aborted"
  /\ UNCHANGED <<inputs, pos, buffer, cur, trace, gpc, taken, body, cuts>>

(***************************************************************************)
(* Two chat sessions on the module-level mas_client (chat.py 496).  of[s]  *)
(* holds the locals of call s; buffers holds the line buffers by the place *)
(* they are kept in.  A step runs from one suspension point to the next.   *)
(***************************************************************************)
Sessions == {1, 2}

NoSessions == [of |-> <<>>, buffers |-> <<>>, mixed |-> FALSE]

Slot_Shared(s) == 1

\* line 250: `buffer = ""` is a local variable of the call
Slot(s) == s

MidStream(c) == c.pc \in {"read", "drain", "extract"} /\ c.pos > 0

\* history: call s moves while both calls are in the middle of their streams
Mixed(s) == sess.mixed \/ \A r \in Sessions : MidStream(sess.of[r])

single_but_web ==
  <<prog, text, env, service, pc, pos, buffer, cur, events, trace, gpc, taken, body, cuts, sess,
    renderer, chat>>

single ==
  <<prog, text, env, service, pc, pos, buffer, cur, events, trace, gpc, taken, body, cuts, web,
    renderer, chat>>

TwoStart(s) ==
  /\ prog = "sessions" /\ sess.of[s].pc = "start"
  /\ sess' = [sess EXCEPT
       !.of[s].pc = IF TransportFailure(env) # "" THEN "closed" ELSE "read",
       !.of[s].events = IF TransportFailure(env) # ""
                        THEN <<ErrorEvent(Str(<<FailPrefix, TransportFailure(env)>>))>>
                        ELSE <<>>,
       !.buffers[Slot(s)] = <<>>]
  /\ UNCHANGED single

TwoRecvChunk(s) ==
  /\ prog = "sessions" /\ sess.of[s].pc = "read" /\ sess.of[s].pos < Len(sess.of[s].text)
  /\ \E n \in 1..(Len(sess.of[s].text) - sess.of[s].pos) :
       LET chunk == SubSeq(sess.of[s].text, sess.of[s].pos + 1, sess.of[s].pos + n)
           buf == Accumulate(sess.buffers[Slot(s)], chunk)
       IN sess' = [sess EXCEPT !.of[s].pos = @ + n,
                               !.of[s].pc = AfterLine(buf),
                               !.buffers[Slot(s)] = buf,
                               !.mixed = Mixed(s)]
  /\ UNCHANGED single

TwoProcessLine(s) ==
  /\ prog = "sessions" /\ sess.of[s].pc = "drain"
  /\ LET buf == sess.buffers[Slot(s)]
         i == FirstNL(buf, 1)
         line == SubSeq(buf, 1, i - 1)
         rest == SubSeq(buf, i + 1, Len(buf))
         lk == LineKind(line)
         c == HandleLine(lk)
     IN \* another call may have emptied a buffer that is not this call's own
        IF i = 0
        THEN sess' = [sess EXCEPT !.of[s].pc = "read"]
        ELSE sess' = [sess EXCEPT
               !.of[s].events = @ \o c.ev,
               !.of[s].pc = IF c.extract THEN "extract" ELSE NextPc(lk.kind, rest),
               !.of[s].cur = IF c.extract THEN c.tool_output ELSE @,
               !.buffers[Slot(s)] = rest,
               !.mixed = Mixed(s)]
  /\ UNCHANGED single

TwoExtract(s) ==
  /\ prog = "sessions" /\ sess.of[s].pc = "extract"
  /\ sess' = [sess EXCEPT
       !.of[s].events = @ \o ExtractChart(sess.of[s].cur, service).ev,
       !.of[s].cur = Null,
       !.of[s].pc = AfterLine(sess.buffers[Slot(s)]),
       !.mixed = Mixed(s)]
  /\ UNCHANGED single

TwoEndOfResponse(s) ==
  /\ prog = "sessions" /\ sess.of[s].pc = "read" /\ sess.of[s].pos = Len(sess.of[s].text)
  /\ sess' = [sess EXCEPT !.of[s].pc = "closed"]
  /\ UNCHANGED single

(***************************************************************************)
(* main.py: the schema manifest cache (195-197) and its three writers.     *)
(* No handler awaits, so each runs as one step.  A manifest is named by    *)
(* the number of the generation that made it; None is 0.                   *)
(***************************************************************************)
MaxRequests == 3
MaxTicks == 2

NoWeb == [phase |-> "off"]

None == 0

\* time.time() when the process starts; _cache_timestamp starts as 0
Epoch == 10000

\* seconds the clock moves between two requests
TickSizes == {1, 3600}

\* generate_schema_manifest() returns, or raises
Outcomes == {"returns", "raises"}

IsStale_Never(cache_age) == FALSE

\* line 274: cache_age > 3600
IsStale(cache_age) == cache_age > 3600

\* the functions in which the name `time` is bound: get_schemas_temp (270)
\* and startup_event (357) import it locally, refresh_schemas does not, and
\* the module does not import it (15-25, 172-174)
TimeIsBound(fn) == fn \in {"get_schemas_temp", "startup_event"}

Response(op, code, content, generated, before) ==
  [op |-> op, code |-> code, body |-> content, generated |-> generated, before |-> before]

\* cache and timestamp as a request finds them
Snapshot == [manifest |-> web.manifest, stamp |-> web.stamp, now |-> web.now, ran |-> web.ran]

\* startup_event, lines 369-377
Startup ==
  /\ prog = "web" /\ web.phase = "boot"
  /\ \E outcome \in Outcomes :
       web' = IF outcome = "returns"
              THEN [web EXCEPT !.phase = "up", !.gens = @ + 1, !.manifest = web.gens + 1,
                               !.stamp = web.now]
              ELSE [web EXCEPT !.phase = "up"]
  /\ UNCHANGED single_but_web

\* time passes
Tick ==
  /\ prog = "web" /\ web.phase = "up" /\ web.ticks < MaxTicks
  /\ \E d \in TickSizes : web' = [web EXCEPT !.now = @ + d, !.ticks = @ + 1]
  /\ UNCHANGED single_but_web

\* get_schemas_temp, lines 263-284
GetSchemas ==
  /\ prog = "web" /\ web.phase = "up" /\ web.requests < MaxRequests
  /\ LET cache_age == web.now - web.stamp
         before == Snapshot
     IN IF web.manifest = None \/ IsStale(cache_age)
        THEN \E outcome \in Outcomes :
               IF outcome = "returns"
               THEN web' = [web EXCEPT !.requests = @ + 1, !.gens = @ + 1,
                                       !.manifest = web.gens + 1, !.stamp = web.now,
                                       !.resp = Response("GET", 200, web.gens + 1, outcome, before)]
               ELSE web' = [web EXCEPT !.requests = @ + 1,
                                       !.resp = IF web.manifest = None
                                                THEN Response("GET", 500, None, outcome, before)
                                                ELSE Response("GET", 200, web.manifest, outcome, before)]
        ELSE web' = [web EXCEPT !.requests = @ + 1,
                                !.resp = Response("GET", 200, web.manifest, "no", before)]
  /\ UNCHANGED single_but_web

\* refresh_schemas, lines 287-303: the manifest is assigned first; reading
\* time.time() then raises NameError where `time` is not bound, and the
\* handler of line 301 answers 500
RefreshSchemas ==
  /\ prog = "web" /\ web.phase = "up" /\ web.requests < MaxRequests
  /\ LET before == Snapshot IN
     \E outcome \in Outcomes :
       IF outcome = "raises"
       THEN web' = [web EXCEPT !.requests = @ + 1,
                               !.resp = Response("POST", 500, None, outcome, before)]
       ELSE IF TimeIsBound("refresh_schemas")
       THEN web' = [web EXCEPT !.requests = @ + 1, !.gens = @ + 1,
                               !.manifest = web.gens + 1, !.stamp = web.now,
                               !.resp = Response("POST", 200, web.gens + 1, outcome, before)]
       ELSE web' = [web EXCEPT !.requests = @ + 1, !.gens = @ + 1,
                               !.manifest = web.gens + 1,
                               !.resp = Response("POST", 500, None, outcome, before)]
  /\ UNCHANGED single_but_web

(***************************************************************************)
(* metrics.py: execute_custom_query (523-591).  web.ran holds the          *)
(* schema/table pairs that databricks_repo.execute_query was called for.   *)
(***************************************************************************)
\* line 542
allowed_schemas == {"dominos_realistic", "dominos_analytics"}

\* lines 550-572; allowed_tables.get(schema, [])
allowed_tables(schema) ==
  CASE schema = "dominos_realistic" ->
         {"daily_sales_fact", "campaigns_dim", "campaign_performance_daily",
          "customer_acquisition_source", "marketing_spend_daily"}
    [] schema = "dominos_analytics" ->
         {"metric_cac_by_channel", "metric_arpu_by_segment", "metric_cohort_retention",
          "metric_gmv", "metric_channel_mix", "metric_attach_rate", "sales_monthly_summary",
          "channel_performance_summary", "customer_segment_summary",
          "product_performance_summary"}
    [] OTHER -> {}

TableAllowed_AnySchema(schema, table) == \E any \in allowed_schemas : table \in allowed_tables(any)

\* line 572: table in allowed_tables.get(schema, [])
TableAllowed(schema, table) == table \in allowed_tables(schema)

\* the schema and table parameters a client may send
SchemaParams == {"dominos_realistic", "dominos_analytics", "dominos_files", "information_schema"}
TableParams ==
  {"daily_sales_fact", "marketing_spend_daily", "metric_gmv", "product_performance_summary",
   "customers", "metric_gmv; DROP TABLE x"}

\* execute_custom_query: validation raises HTTPException(400), which line
\* 587 re-raises as it is; any other exception becomes 500 (589-591)
ExecuteCustomQuery ==
  /\ prog = "web" /\ web.phase = "up" /\ web.requests < MaxRequests
  /\ \E schema \in SchemaParams, table \in TableParams, outcome \in Outcomes :
       LET before == Snapshot
           pair == [schema |-> schema, table |-> table]
       IN IF schema \notin allowed_schemas \/ ~TableAllowed(schema, table)
          THEN web' = [web EXCEPT !.requests = @ + 1,
                                  !.resp = Response("QUERY", 400, pair, "no", before)]
          ELSE web' = [web EXCEPT !.requests = @ + 1, !.ran = @ \cup {pair},
                                  !.resp = Response("QUERY", IF outcome = "returns" THEN 200 ELSE 500,
                                                    pair, outcome, before)]
  /\ UNCHANGED single_but_web

(***************************************************************************)
(* Chat app: MASClient.stream_raw and normalize.                           *)
(***************************************************************************)
IsLineEnd(tok) == tok \in {NL, CR}

\* position of the first line terminator at or after i, 0 when there is none
RECURSIVE FirstLineEnd(_, _)
FirstLineEnd(q, i) ==
  IF i > Len(q) THEN 0 ELSE IF IsLineEnd(q[i]) THEN i ELSE FirstLineEnd(q, i + 1)

\* resp.aiter_lines(): the next line of the rest of the text and the number of
\* tokens it takes; "\n", "\r" and "\r\n" end a line, the last line needs none
NextLine(rest) ==
  LET i == FirstLineEnd(rest, 1) IN
  IF i = 0 THEN [line |-> rest, used |-> Len(rest)]
  ELSE IF rest[i] = CR /\ i < Len(rest) /\ rest[i + 1] = NL
  THEN [line |-> SubSeq(rest, 1, i - 1), used |-> i + 1]
  ELSE [line |-> SubSeq(rest, 1, i - 1), used |-> i]

PassThrough(event) == [raw |-> event]

\* mas_normalizer.py 52-83: the event of a decoded frame
NormalizeEvent(event) ==
  LET event_type == Get(event, "type", EmptyStr) IN
  IF event_type = S("text_delta") THEN TextDelta(Get(event, "delta", EmptyStr))
  ELSE IF event_type = S("tool_call")
  THEN ToolCall(Get(event, "name", S("unknown_tool")), Get(event, "args", EmptyStr))
  ELSE IF event_type = S("tool_output")
  THEN ToolOutput(Get(event, "name", S("unknown_tool")), Get(event, "output", EmptyStr))
  ELSE IF event_type = S("error") THEN ErrorEvent(Get(event, "message", S("Unknown error")))
  ELSE PassThrough(event)

\* mas_normalizer.py 33-87 on one line: the events yielded, and whether an
\* exception other than JSONDecodeError leaves the generator
NormalizeLine(raw_line) ==
  LET line == Strip(raw_line)
      none == [kind |-> "other", v |-> Null, ev |-> <<>>, raised |-> FALSE]
  IN IF line = <<>> THEN [none EXCEPT !.kind = "blank"]
     ELSE IF line[1] = Colon \/ line[1] # DataColon THEN none
     ELSE LET json_str == Strip(SubSeq(line, 2, Len(line))) IN
       IF json_str = <<DoneMark>> THEN [none EXCEPT !.kind = "done"]
       ELSE IF ~JsonLoads(json_str).ok THEN [none EXCEPT !.kind = "bad"]
       ELSE LET event == JsonLoads(json_str).v IN
         \* event.get on a value that is not a dict: AttributeError
         IF ~IsObj(event) THEN [kind |-> "frame", v |-> event, ev |-> <<>>, raised |-> TRUE]
         ELSE [kind |-> "frame", v |-> event, ev |-> <<NormalizeEvent(event)>>, raised |-> FALSE]

OnStreamError_Ends == "closed"

\* mas_client.py 48-49, 74-79: a missing token raises ValueError, an HTTP or
\* transport error is logged and re-raised; nothing is yielded
OnStreamError == "raised"

(***************************************************************************)
(* Chat app: _build_messages_with_history (app.py 123-182) with the        *)
(* settings hist_max_turns and hist_max_chars (config.py 31-33).  A        *)
(* message is a role and a content, the content a sequence of characters.  *)
(***************************************************************************)
NoChat == [phase |-> "off"]

Msg(role, content) == [role |-> role, content |-> content]

\* app.py 137-153, abbreviated
system_prompt == <<"You are an expert analytics assistant ...">>

\* seq[i:] of Python, for any integer i
SliceFrom(seq, i) ==
  LET n == Len(seq)
      first == IF i < 0 THEN (IF n + i < 0 THEN 0 ELSE n + i) ELSE (IF i > n THEN n ELSE i)
  IN SubSeq(seq, first + 1, n)

\* app.py 166-174: from the newest message backwards, until the first one
\* that would exceed the budget; total_chars is the length kept so far
RECURSIVE FilterHistory(_, _, _)
FilterHistory(recent_history, total_chars, hist_max_chars) ==
  IF recent_history = <<>> THEN <<>>
  ELSE LET msg == recent_history[Len(recent_history)]
           msg_chars == Len(msg.content)
       IN IF total_chars + msg_chars > hist_max_chars THEN <<>>
          ELSE Append(FilterHistory(SubSeq(recent_history, 1, Len(recent_history) - 1),
                                    total_chars + msg_chars, hist_max_chars),
                      msg)

\* app.py 155-182; line 164 is history[-(settings.hist_max_turns * 2):]
build_messages_with_history(user_content, history, hist_max_turns, hist_max_chars) ==
  LET recent_history == SliceFrom(history, -(hist_max_turns * 2))
      filtered_history == IF history # <<>>
                          THEN FilterHistory(recent_history, 0, hist_max_chars)
                          ELSE <<>>
  IN <<Msg("system", system_prompt)>> \o filtered_history \o <<Msg("user", user_content)>>

\* app.py 89: on_message builds the list for the message it received
BuildMessages ==
  /\ prog = "history" /\ chat.phase = "new"
  /\ chat' = [chat EXCEPT !.phase = "built",
                          !.messages = build_messages_with_history(
                                         chat.user_content, chat.history,
                                         chat.hist_max_turns, chat.hist_max_chars)]
  /\ UNCHANGED <<prog, text, env, service, pc, pos, buffer, cur, events, trace, gpc, taken, body,
                 cuts, sess, web, renderer>>

(***************************************************************************)
(* Chat app: ChainlitStream (renderer.py) and the loop of on_message       *)
(* (app.py 91-120).  calls are the methods on_message has called, ui the   *)
(* operations on the Chainlit messages, in order.                          *)
(***************************************************************************)
\* renderer.py 24-27
NewRenderer == [status_msg |-> "None", text_msg |-> "None", calls |-> <<>>, ui |-> <<>>]

Call(op, arg) == [op |-> op, arg |-> arg]

\* renderer.py 29-32
start(r) ==
  [r EXCEPT !.status_msg = "sent", !.calls = Append(@, Call("start", Null)),
            !.ui = Append(@, "status.send")]

\* renderer.py 102-109
update_status(r) == IF r.status_msg # "None" THEN [r EXCEPT !.ui = Append(@, "status.update")] ELSE r

\* renderer.py 34-46
on_tool_call(r, name) == update_status([r EXCEPT !.calls = Append(@, Call("on_tool_call", name))])

\* renderer.py 48-60
on_tool_output(r, name) ==
  update_status([r EXCEPT !.calls = Append(@, Call("on_tool_output", name))])

on_text_delta_AlwaysCreates(r, token) ==
  [r EXCEPT !.calls = Append(@, Call("on_text_delta", token)),
            !.text_msg = "sent",
            !.ui = @ \o <<"text.send", "text.stream_token">>]

\* renderer.py 62-75: the text message is created on the first token
on_text_delta(r, token) ==
  [r EXCEPT !.calls = Append(@, Call("on_text_delta", token)),
            !.text_msg = "sent",
            !.ui = @ \o (IF r.text_msg = "None" THEN <<"text.send">> ELSE <<>>)
                     \o <<"text.stream_token">>]

\* renderer.py 77-89
on_error(r, message) ==
  [r EXCEPT !.calls = Append(@, Call("on_error", message)), !.ui = Append(@, "error.send")]

\* renderer.py 91-100
finish(r) ==
  [r EXCEPT !.calls = Append(@, Call("finish", Null)),
            !.status_msg = IF @ # "None" THEN "removed" ELSE @,
            !.ui = @ \o (IF r.status_msg # "None" THEN <<"status.remove">> ELSE <<>>)
                     \o (IF r.text_msg # "None" THEN <<"text.update">> ELSE <<>>)]

\* an event as on_message reads it: event.get(key) and event[key]
EventHas(event, k) == IF "raw" \in DOMAIN event THEN Has(event.raw, k) ELSE k \in DOMAIN event
EventGet(event, k) ==
  IF "raw" \in DOMAIN event THEN Get(event.raw, k, Null)
  ELSE IF k = "type" THEN S(event[k]) ELSE event[k]

\* app.py 101-113: one event of the loop; event["delta"] and event["name"]
\* raise KeyError when the key is missing
DispatchOne(r, event) ==
  LET event_type == IF EventHas(event, "type") THEN EventGet(event, "type") ELSE Null IN
  IF event_type = S("text.delta")
  THEN IF EventHas(event, "delta")
       THEN [r |-> on_text_delta(r, EventGet(event, "delta")), raised |-> FALSE]
       ELSE [r |-> r, raised |-> TRUE]
  ELSE IF event_type = S("tool.call")
  THEN IF EventHas(event, "name")
       THEN [r |-> on_tool_call(r, EventGet(event, "name")), raised |-> FALSE]
       ELSE [r |-> r, raised |-> TRUE]
  ELSE IF event_type = S("tool.output")
  THEN IF EventHas(event, "name")
       THEN [r |-> on_tool_output(r, EventGet(event, "name")), raised |-> FALSE]
       ELSE [r |-> r, raised |-> TRUE]
  ELSE IF event_type = S("error")
  THEN [r |-> on_error(r, IF EventHas(event, "message") THEN EventGet(event, "message")
                          ELSE S("Unknown error")),
        raised |-> FALSE]
  ELSE [r |-> r, raised |-> FALSE]

\* the events normalize yields for one line (none or one)
Dispatch(r, ev) == IF ev = <<>> THEN [r |-> r, raised |-> FALSE] ELSE DispatchOne(r, ev[1])

\* app.py 118-120: the message of the handler's except clause
ProcessingFailure == Str(<<"Failed to process your query: ", "exception">>)

\* app.py 115-120: renderer.finish() after the loop, on_error in the except clause
Ending(r, how) ==
  IF how = "closed" THEN finish(r)
  ELSE IF how = "raised" THEN on_error(r, ProcessingFailure)
  ELSE r

\* mas_client.py 45-68: token check and request
AppStart ==
  /\ prog = "chatapp" /\ pc = "start"
  /\ pc' = IF ~env.bearer \/ env.status \notin 200..299 THEN OnStreamError ELSE "read"
  /\ renderer' = Ending(start(renderer), pc')
  /\ UNCHANGED <<given, pos, buffer, cur, events, trace, gpc, taken, body, cuts>>

\* mas_client.py 70-72 and mas_normalizer.py 32-87: the next line is read,
\* dropped if blank, and normalised
AppLine ==
  /\ prog = "chatapp" /\ pc = "read" /\ pos < Len(text)
  /\ LET nl == NextLine(SubSeq(text, pos + 1, Len(text)))
         r == NormalizeLine(nl.line)
     IN /\ pos' = pos + nl.used
        /\ IF Strip(nl.line) = <<>>
           THEN UNCHANGED <<events, trace, pc, renderer>>
           ELSE LET d == Dispatch(renderer, r.ev) IN
                /\ events' = events \o r.ev
                /\ trace' = Append(trace, [line |-> nl.line, kind |-> r.kind, v |-> r.v,
                                           ev |-> r.ev, calls |-> <<>>])
                /\ pc' = IF r.raised \/ d.raised THEN "raised" ELSE "read"
                /\ renderer' = Ending(d.r, pc')
  /\ UNCHANGED <<given, buffer, cur, gpc, taken, body, cuts>>

\* mas_client.py 74-79: reading raises, the exception is logged and re-raised
AppReadFails ==
  /\ prog = "chatapp" /\ pc = "read"
  /\ pc' = OnStreamError
  /\ renderer' = Ending(renderer, pc')
  /\ UNCHANGED <<given, pos, buffer, cur, events, trace, gpc, taken, body, cuts>>

\* mas_client.py 70: the response has ended
AppEnd ==
  /\ prog = "chatapp" /\ pc = "read" /\ pos = Len(text)
  /\ pc' = "closed"
  /\ renderer' = Ending(renderer, pc')
  /\ UNCHANGED <<given, pos, buffer, cur, events, trace, gpc, taken, body, cuts>>

(***************************************************************************)
(* Inputs: frames, lines, texts, environments and services.                *)
(***************************************************************************)
MaxLines == 3
MaxFollow == 1
MaxSessionLines == 1

AnalyticsName == Str(<<"agent-", "sales", "-", "analytics">>)
UpperName == Str(<<"execute_", "Genie", "_", "Query">>)
OtherName == S("weather")

ToolResult(name, output) ==
  Obj([type |-> S("response.tool_result"), result |-> Obj([name |-> name, output |-> output])])

Attachment(id) == Obj([attachment_id |-> id])
Genie3 == [space_id |-> S("s1"), conversation_id |-> S("c1"), message_id |-> S("m1")]
GenieWith(atts) == Obj(Genie3 @@ [attachments |-> List(atts)])
Flat4(space, conv, msg, att) ==
  [space_id |-> space, conversation_id |-> conv, message_id |-> msg, attachment_id |-> att]

QueryMeta == Obj([title |-> S("Top stores"), description |-> S("By revenue"), query_text |-> S("SELECT 1")])

\* tool outputs of the chart extractor's patterns
Out_P0 == Obj([genie |-> GenieWith(<<Attachment(S("a1"))>>)])
Out_P0Meta == Obj([genie |-> GenieWith(<<Obj([attachment_id |-> S("a1"), query |-> QueryMeta])>>)])
Out_P0NoTitle == Obj([genie |-> GenieWith(<<Obj([attachment_id |-> S("a1"),
                                                  query |-> Obj([query_text |-> S("SELECT 1")])])>>)])
Out_P0EmptyList == Obj([genie |-> GenieWith(<<>>)])
Out_P0Direct == Obj([genie |-> Obj(Genie3 @@ [attachment_id |-> S("a1")])])
Out_P0EmptyListDirect == Obj([genie |-> Obj(Genie3 @@ [attachments |-> List(<<>>), attachment_id |-> S("a1")])])
Out_P0EmptySpace ==
  Obj([genie |-> Obj([space_id |-> EmptyStr, conversation_id |-> S("c1"), message_id |-> Null,
                      attachments |-> List(<<Attachment(S("a1"))>>)])])
Out_P0BadList == Obj([genie |-> GenieWith(<<S("a1")>>)])
Out_Flat == Obj(Flat4(S("s1"), S("c1"), S("m1"), S("a1")))
Out_FlatEmpty == Obj(Flat4(EmptyStr, S("c1"), S("m1"), S("a1")))
Out_FlatNull == Obj(Flat4(S("s1"), S("c1"), S("m1"), Null))
Out_Result == Obj([result |-> Obj(Flat4(S("s1"), S("c1"), S("m1"), S("a1")))])
Out_Data == Obj([data |-> Obj(Flat4(S("s1"), S("c1"), S("m1"), S("a1")))])
Out_Conv == Obj([conversation_id |-> S("c1"), space_id |-> S("s1")])
Out_ConvNoSpace == Obj([conversation_id |-> S("c1")])
Out_ConvEmptySpace == Obj([conversation_id |-> S("c1"), space_id |-> EmptyStr])
Out_ResultConv == Obj([result |-> Obj([conversation_id |-> S("c1"), space_id |-> S("s1")])])
Out_P0AndFlat ==
  Obj([genie |-> GenieWith(<<Attachment(S("a1"))>>)] @@ Flat4(S("s2"), S("c2"), S("m2"), S("a2")))
Out_P0AndConv ==
  Obj([genie |-> GenieWith(<<Attachment(S("a1"))>>), conversation_id |-> S("c1")])
Out_P0AndConvSpace ==
  Obj([genie |-> GenieWith(<<Attachment(S("a1"))>>), conversation_id |-> S("c1"), space_id |-> S("s1")])
Out_Plain == Obj([rows |-> Num(3)])

ChartOutputs ==
  {Out_P0, Out_P0Meta, Out_P0NoTitle, Out_P0EmptyList, Out_P0Direct, Out_P0EmptyListDirect,
   Out_P0EmptySpace, Out_P0BadList, Out_Flat, Out_FlatEmpty, Out_FlatNull, Out_Result, Out_Data,
   Out_Conv, Out_ConvNoSpace, Out_ConvEmptySpace, Out_ResultConv, Out_P0AndFlat, Out_P0AndConv,
   Out_P0AndConvSpace, Out_Plain}

FunctionCall(args) ==
  Obj([type |-> S("function_call"), name |-> Str(<<"execute_", "query">>)] @@ args)

Choices(content) == List(<<Obj([delta |-> Obj([content |-> content])])>>)

F_Text == Obj([type |-> S("response.output_text.delta"), delta |-> S("Hi")])
F_TextEmpty == Obj([type |-> S("response.output_text.delta"), delta |-> EmptyStr])
F_Added == Obj([type |-> S("response.output_item.added"), item |-> FunctionCall(<<>>)])
F_AddedArgs ==
  Obj([type |-> S("response.output_item.added"),
       item |-> FunctionCall([arguments |-> S("{\"q\": 1}")])])
F_AddedMessage == Obj([type |-> S("response.output_item.added"), item |-> Obj([type |-> S("message")])])
F_Done == Obj([type |-> S("response.output_item.done"), item |-> FunctionCall(<<>>)])
F_DoneMessage ==
  Obj([type |-> S("response.output_item.done"),
       item |-> Obj([type |-> S("message"), content |-> List(<<>>)])])
F_Created == Obj([type |-> S("response.created")])
F_Unknown == Obj([type |-> S("response.in_progress")])
F_NoType == Obj([id |-> S("x")])
F_List == List(<<Num(1)>>)
F_Choices == Obj([choices |-> Choices(S("Hi"))])
F_ChoicesEmpty == Obj([choices |-> Choices(EmptyStr)])
\* a choices delta in a frame that also has a discriminator of the response.* schemas
F_ChoicesAndText ==
  Obj([type |-> S("response.output_text.delta"), delta |-> S("Yo"), choices |-> Choices(S("Hi"))])
F_ChoicesAndDone ==
  Obj([type |-> S("response.output_item.done"), item |-> FunctionCall(<<>>), choices |-> Choices(S("Hi"))])
F_ChoicesAndAdded ==
  Obj([type |-> S("response.output_item.added"), item |-> FunctionCall(<<>>), choices |-> Choices(S("Hi"))])
F_ChoicesAndResult ==
  Obj([type |-> S("response.tool_result"), result |-> Obj([name |-> OtherName, output |-> S("ok")]),
       choices |-> Choices(S("Hi"))])
F_ChoicesAndUnknown == Obj([type |-> S("response.in_progress"), choices |-> Choices(S("Hi"))])
F_Chart == ToolResult(AnalyticsName, Out_P0)

\* frames of the chat app's upstream format
A_Text == Obj([type |-> S("text_delta"), delta |-> S("Hi")])
A_Call == Obj([type |-> S("tool_call"), name |-> S("query_genie")])
A_Output == Obj([type |-> S("tool_output"), name |-> S("query_genie"), output |-> S("ok")])
A_Error == Obj([type |-> S("error"), message |-> S("boom")])

RichFrames ==
  {ToolResult(AnalyticsName, o) : o \in ChartOutputs}
    \cup {ToolResult(UpperName, Out_Flat), ToolResult(OtherName, Out_Flat),
          ToolResult(OtherName, Out_Conv), ToolResult(AnalyticsName, S("Complete")),
          ToolResult(Null, Out_Flat),
          Obj([type |-> S("response.function_call_result"), result |-> S("done")]),
          F_Text, F_TextEmpty, F_Added, F_AddedArgs, F_AddedMessage, F_Done, F_DoneMessage,
          F_Created, F_Unknown, F_NoType, F_List, F_Choices, F_ChoicesEmpty, F_ChoicesAndText,
          F_ChoicesAndDone, F_ChoicesAndAdded, F_ChoicesAndResult, F_ChoicesAndUnknown,
          A_Text, A_Call, A_Output, A_Error}

\* lines, without their terminator
DataLine(v) == <<DataColon, SP>> \o Encode(v)
Truncated(v) == <<DataColon, SP, J1(v)>>
BlankLine == <<>>
CommentLine == <<Colon, SP, Junk>>
DoneLineText == <<DataColon, SP, DoneMark>>

WireLines ==
  {BlankLine, CommentLine, DoneLineText, DataLine(F_Text), DataLine(F_Chart), Truncated(F_Text)}

\* a data line whose marker is not followed by a space
NoSpaceLine(payload) == <<DataColon>> \o payload

RichLines ==
  {DataLine(f) : f \in RichFrames}
    \cup {NoSpaceLine(Encode(F_Text)), NoSpaceLine(Encode(A_Text)), NoSpaceLine(<<DoneMark>>)}

\* the texts of at most n lines of L, the last of them with or without its "\n"
RECURSIVE Texts(_, _)
Texts(L, n) ==
  IF n = 0 THEN {<<>>}
  ELSE LET shorter == Texts(L, n - 1) IN
       shorter \cup {t \o l \o <<NL>> : t \in {u \in shorter : u = <<>> \/ u[Len(u)] = NL}, l \in L}
               \cup {t \o l : t \in {u \in shorter : u = <<>> \/ u[Len(u)] = NL}, l \in L \ {<<>>}}

\* one line of L followed by at most n lines that each hold the frame f
RECURSIVE Repeat(_, _)
Repeat(q, n) == IF n = 0 THEN <<>> ELSE q \o Repeat(q, n - 1)

FollowedTexts(L, f, n) ==
  {l \o <<NL>> \o Repeat(DataLine(f) \o <<NL>>, k) : l \in L, k \in 0..n}

OkEnv == [host |-> TRUE, creds |-> TRUE, token |-> TRUE, status |-> 200, bearer |-> TRUE]
FailingEnvs ==
  {[OkEnv EXCEPT !.host = FALSE], [OkEnv EXCEPT !.creds = FALSE], [OkEnv EXCEPT !.token = FALSE],
   [OkEnv EXCEPT !.status = 401], [OkEnv EXCEPT !.bearer = FALSE]}

Message(id, status, getRaises, attachments) ==
  [id |-> id, status |-> status, getRaises |-> getRaises, attachments |-> attachments]
Service(listRaises, messages) ==
  [space |-> S("s1"), conv |-> S("c1"), listRaises |-> listRaises, messages |-> messages]

Svc_Ok == Service(FALSE, <<Message("m1", "COMPLETED", FALSE, <<S("a7")>>)>>)
Svc_ListRaises == Service(TRUE, <<>>)
Svc_GetRaises == Service(FALSE, <<Message("m1", "COMPLETED", TRUE, <<S("a7")>>)>>)
Svc_Pending == Service(FALSE, <<Message("m1", "COMPLETED", FALSE, <<S("a7")>>),
                                 Message("m2", "EXECUTING_QUERY", FALSE, <<>>)>>)
Svc_NewestBare == Service(FALSE, <<Message("m1", "COMPLETED", FALSE, <<S("a7")>>),
                                    Message("m2", "COMPLETED", FALSE, <<>>)>>)
Svc_Empty == Service(FALSE, <<Message("m2", "EXECUTING_QUERY", FALSE, <<>>)>>)
Svc_NewestRaises == Service(FALSE, <<Message("m1", "COMPLETED", FALSE, <<Null, S("a7")>>),
                                      Message("m2", "COMPLETED", TRUE, <<S("a8")>>)>>)
Svc_TwoGood == Service(FALSE, <<Message("m1", "COMPLETED", FALSE, <<S("a7")>>),
                                 Message("m2", "COMPLETED", FALSE, <<S("a8"), S("a9")>>)>>)
Services ==
  {Svc_Ok, Svc_ListRaises, Svc_GetRaises, Svc_Pending, Svc_NewestBare, Svc_Empty,
   Svc_NewestRaises, Svc_TwoGood}

Programs == {"backend", "chatapp"}

\* the state after construction, for the texts T and the services V; when the
\* transport fails before the response is open there is no text
InitOf(T, V) ==
  /\ prog \in Programs
  /\ service \in V
  /\ \/ env = OkEnv /\ text \in T
     \/ env \in FailingEnvs /\ text = <<>>
  /\ pc = "start"
  /\ pos = 0
  /\ buffer = <<>>
  /\ cur = Null
  /\ events = <<>>
  /\ trace = <<>>
  /\ gpc = "run"
  /\ taken = 0
  /\ body = <<>>
  /\ cuts = [line |-> FALSE, json |-> FALSE]
  /\ sess = NoSessions
  /\ web = NoWeb
  /\ renderer = NewRenderer
  /\ chat = NoChat

Init == InitOf(Texts(WireLines, MaxLines), {Svc_Ok})

InitChart == InitOf(FollowedTexts(RichLines, F_Text, MaxFollow), Services)

Next ==
  \/ Start
  \/ RecvChunk
  \/ ProcessLine
  \/ Extract
  \/ ReadFails
  \/ EndOfResponse
  \/ Forward
  \/ ForwardFails
  \/ SendDone
  \/ Abandon
  \/ Finalize
  \/ AppStart
  \/ AppLine
  \/ AppReadFails
  \/ AppEnd

Spec == Init /\ [][Next]_vars

SpecChart == InitChart /\ [][Next]_vars

\* a suspended generator that nobody iterates any more is closed by the event
\* loop (cancellation of the request task, or aclose() of the abandoned
\* generator), hence weak fairness of Finalize
LiveLines == {DataLine(F_Text), DataLine(ToolResult(AnalyticsName, Out_Conv))}
InitLive == InitOf(Texts(LiveLines, MaxLines), {Svc_Ok})
SpecLive == InitLive /\ [][Next]_vars /\ WF_vars(Finalize)

\* two calls of stream_events, each with its own upstream text
NewCall(t) == [text |-> t, pc |-> "start", pos |-> 0, cur |-> Null, events |-> <<>>]

InitTwo ==
  /\ prog = "sessions"
  /\ service = Svc_Ok
  /\ env \in {OkEnv, [OkEnv EXCEPT !.token = FALSE]}
  /\ \E t1, t2 \in Texts(LiveLines, MaxSessionLines) :
       sess = [of |-> <<NewCall(t1), NewCall(t2)>>, buffers |-> <<<<>>, <<>>>>, mixed |-> FALSE]
  /\ text = <<>> /\ pc = "closed" /\ pos = 0 /\ buffer = <<>> /\ cur = Null
  /\ events = <<>> /\ trace = <<>> /\ gpc = "done" /\ taken = 0 /\ body = <<>>
  /\ cuts = [line |-> FALSE, json |-> FALSE]
  /\ web = NoWeb
  /\ renderer = NewRenderer
  /\ chat = NoChat

NextTwo ==
  \E s \in Sessions :
    \/ TwoStart(s)
    \/ TwoRecvChunk(s)
    \/ TwoProcessLine(s)
    \/ TwoExtract(s)
    \/ TwoEndOfResponse(s)

SpecTwo == InitTwo /\ [][NextTwo]_vars

\* the backend process: module load, then startup_event, then requests
InitWeb ==
  /\ prog = "web"
  /\ web = [phase |-> "boot", manifest |-> None, stamp |-> 0, now |-> Epoch, gens |-> 0,
            requests |-> 0, ticks |-> 0, ran |-> {}, resp |-> Response("none", 0, None, "no", <<>>)]
  /\ service = Svc_Ok /\ env = OkEnv /\ sess = NoSessions
  /\ text = <<>> /\ pc = "closed" /\ pos = 0 /\ buffer = <<>> /\ cur = Null
  /\ events = <<>> /\ trace = <<>> /\ gpc = "done" /\ taken = 0 /\ body = <<>>
  /\ cuts = [line |-> FALSE, json |-> FALSE]
  /\ renderer = NewRenderer
  /\ chat = NoChat

NextWeb ==
  \/ Startup
  \/ Tick
  \/ GetSchemas
  \/ RefreshSchemas
  \/ ExecuteCustomQuery

SpecWeb == InitWeb /\ [][NextWeb]_vars

\* one chat message handled by on_message: the upstream sends frames of the
\* chat app's schema, frames that carry an event kind under its dotted name,
\* with and without the field the handler reads, and lines normalize skips
\* or fails on
MaxAppLines == 3

D_Text == Obj([type |-> S("text.delta"), delta |-> S("Hi")])
D_TextBare == Obj([type |-> S("text.delta")])
D_OutputBare == Obj([type |-> S("tool.output")])

AppWireLines ==
  {DataLine(A_Text), DataLine(A_Call), DataLine(A_Output), DataLine(A_Error), DataLine(D_Text),
   DataLine(D_TextBare), DataLine(D_OutputBare), DataLine(F_Unknown), DataLine(F_List),
   Truncated(A_Text), DoneLineText}

InitApp == InitOf(Texts(AppWireLines, MaxAppLines), {Svc_Ok}) /\ prog = "chatapp"

NextApp ==
  \/ AppStart
  \/ AppLine
  \/ AppReadFails
  \/ AppEnd

SpecApp == InitApp /\ [][NextApp]_vars

\* the conversations and settings _build_messages_with_history is called
\* with: a history of at most MaxHistory messages, user and assistant in
\* turn, and settings from no history at all up to more than the history
MaxHistory == 4
MaxTurns == 2

Contents == {<<>>, <<"a">>, <<"b", "b">>, <<"c", "c", "c">>}
RoleAt(i) == IF i % 2 = 1 THEN "user" ELSE "assistant"
Histories ==
  UNION {{[i \in 1..n |-> Msg(RoleAt(i), c[i])] : c \in [1..n -> Contents]} : n \in 0..MaxHistory}
CharBudgets == {0, 2, 4, 16000}

InitHist ==
  /\ prog = "history"
  /\ \E h \in Histories, t \in 0..MaxTurns, c \in CharBudgets :
       chat = [phase |-> "new", history |-> h, hist_max_turns |-> t, hist_max_chars |-> c,
               user_content |-> <<"q">>, messages |-> <<>>]
  /\ service = Svc_Ok /\ env = OkEnv /\ sess = NoSessions /\ web = NoWeb
  /\ renderer = NewRenderer
  /\ text = <<>> /\ pc = "closed" /\ pos = 0 /\ buffer = <<>> /\ cur = Null
  /\ events = <<>> /\ trace = <<>> /\ gpc = "done" /\ taken = 0 /\ body = <<>>
  /\ cuts = [line |-> FALSE, json |-> FALSE]

NextHist == BuildMessages

SpecHist == InitHist /\ [][NextHist]_vars

TypeOK ==
  /\ pc \in {"start", "read", "drain", "extract", "closed", "raised", "aborted"}
  /\ gpc \in {"run", "done", "gone"}
  /\ pos \in 0..Len(text)
  /\ taken \in 0..Len(events)

(***************************************************************************)
(* Reference: what stream_events yields when the text arrives as one chunk *)
(***************************************************************************)
\* all the events of one complete line
EventsOfLine(line, svc) ==
  LET c == HandleLine(LineKind(line)) IN
  c.ev \o (IF c.extract THEN ExtractChart(c.tool_output, svc).ev ELSE <<>>)

\* buffer = text; while "\n" in buffer: ...
RECURSIVE SingleChunk(_, _)
SingleChunk(buf, svc) ==
  LET i == FirstNL(buf, 1) IN
  IF i = 0 THEN <<>>
  ELSE EventsOfLine(SubSeq(buf, 1, i - 1), svc) \o SingleChunk(SubSeq(buf, i + 1, Len(buf)), svc)

\* the complete lines of a text
RECURSIVE CompleteLines(_)
CompleteLines(t) ==
  LET i == FirstNL(t, 1) IN
  IF i = 0 THEN <<>> ELSE <<SubSeq(t, 1, i - 1)>> \o CompleteLines(SubSeq(t, i + 1, Len(t)))

TypeOf(e) == IF "type" \in DOMAIN e THEN e.type ELSE "(none)"
IsError(e) == TypeOf(e) = "error"
\* the error event of the handler of line 488
IsTransportError(e) == IsError(e) /\ e.message.s # <<>> /\ e.message.s[1] = FailPrefix
Failed == events # <<>> /\ IsTransportError(events[Len(events)])
NonError(q) == SelectSeq(q, LAMBDA e : ~IsError(e))
Finished == prog = "backend" /\ pc = "closed" /\ ~Failed

\* ---- C1 ----------------------------------------------------------------
\* C1: however the response text is cut into chunks, also inside a line or
\* inside a JSON payload, stream_events yields the events it yields when the
\* whole text arrives as one chunk.
C1_ChunkingInvariant ==
  Finished => events = SingleChunk(text, service)

C1_Witness ==
  /\ Finished
  /\ cuts.line /\ cuts.json
  /\ Len(events) >= 2

\* ---- C2 ----------------------------------------------------------------
\* a data line whose payload is cut off after its first half: not valid JSON
IsCorruptLine(l) == Len(l) = 3 /\ l[1] = DataColon /\ l[2] = SP /\ l[3].k = "j1"

\* a data line that on its own yields one event
YieldsOneEvent(l) ==
  /\ Len(l) = 4 /\ l[1] = DataColon /\ l[2] = SP /\ <<l[3], l[4]>> = Encode(l[3].v)
  /\ Len(EventsOfLine(l, service)) = 1

\* the events of the lines that are not corrupt, in order
RECURSIVE EventsOfValid(_)
EventsOfValid(ls) ==
  IF ls = <<>> THEN <<>>
  ELSE (IF IsCorruptLine(Head(ls)) THEN <<>> ELSE EventsOfLine(Head(ls), service))
         \o EventsOfValid(Tail(ls))

\* the response is N complete data lines, one of them corrupt, the others
\* frames of one event each
OneCorruptAmongValid ==
  /\ text # <<>> /\ text[Len(text)] = NL
  /\ LET ls == CompleteLines(text) IN
       /\ Cardinality({i \in 1..Len(ls) : IsCorruptLine(ls[i])}) = 1
       /\ \A i \in 1..Len(ls) : IsCorruptLine(ls[i]) \/ YieldsOneEvent(ls[i])

\* C2: in a stream of N frames of one event each, one frame replaced by a
\* payload that is not valid JSON leaves exactly the N-1 events of the other
\* frames, in order, with no error event and no early end.
C2_CorruptFrameSkipped ==
  (prog = "backend" /\ pc = "closed" /\ pos = Len(text) /\ ~Failed /\ OneCorruptAmongValid)
    => /\ events = EventsOfValid(CompleteLines(text))
       /\ Len(events) = Len(CompleteLines(text)) - 1
       /\ \A i \in 1..Len(events) : ~IsError(events[i])

C2_Witness ==
  /\ prog = "backend" /\ pc = "closed" /\ ~Failed /\ OneCorruptAmongValid
  /\ Len(CompleteLines(text)) = 3
  /\ IsCorruptLine(CompleteLines(text)[2])
  /\ Len(events) = 2

\* ---- C3 ----------------------------------------------------------------
EnvFails(e) == ~e.host \/ ~e.creds \/ ~e.token \/ e.status \notin 200..299

\* C3: a transport failure of stream_events never leaves the generator as an
\* exception; it gives exactly one error event, which is the last event, and
\* the events before it are those of the text received up to the failure.
C3_OneFinalError ==
  prog = "backend" =>
    /\ pc # "raised"
    /\ \A i \in 1..Len(events) : IsError(events[i]) => (i = Len(events) /\ pc = "closed")
    /\ (EnvFails(env) /\ pc # "start") => (pc = "closed" /\ Len(events) = 1 /\ Failed)
    /\ (pc = "closed" /\ pos < Len(text)) => Failed
    /\ Failed => SubSeq(events, 1, Len(events) - 1) = SingleChunk(SubSeq(text, 1, pos), service)

C3_Witness ==
  /\ prog = "backend" /\ Failed
  /\ pos < Len(text)
  /\ Len(events) >= 3

\* ---- C4 ----------------------------------------------------------------
\* C4: every response body of event_generator ends with exactly one
\* data: [DONE] line, sent after every event line, also when an exception is
\* raised while events are forwarded or serialised.
C4_BodyEndsWithDone ==
  (prog = "backend" /\ gpc = "done")
    => /\ body # <<>>
       /\ body[Len(body)] = DoneLine
       /\ \A i \in 1..(Len(body) - 1) : body[i] # DoneLine

\* ---- C5 ----------------------------------------------------------------
\* the part of the text whose lines have been cut off the buffer
Consumed == SubSeq(text, 1, pos - Len(buffer))

RECURSIVE Flatten(_)
Flatten(tr) == IF tr = <<>> THEN <<>> ELSE Head(tr).ev \o Flatten(Tail(tr))

\* C5: the events are the concatenation, in line order, of the events of each
\* frame; a frame is finished, lookup included, before the next line is
\* taken; a frame yields at most two events and a chart.reference comes only
\* right after the tool.output of its own frame.
C5_FrameOrder ==
  prog = "backend" =>
    /\ pc \in {"read", "drain", "closed"} => NonError(events) = SingleChunk(Consumed, service)
    /\ pc = "extract" =>
         /\ events \o ExtractChart(cur, service).ev = SingleChunk(Consumed, service)
         /\ TypeOf(events[Len(events)]) = "tool.output"
    /\ NonError(events) = Flatten(trace)
    /\ \A k \in 1..Len(trace) :
         /\ Len(trace[k].ev) <= 2
         /\ \A j \in 1..Len(trace[k].ev) :
              TypeOf(trace[k].ev[j]) = "chart.reference"
                => (j = 2 /\ TypeOf(trace[k].ev[1]) = "tool.output")
    /\ \A i \in 1..Len(events) :
         TypeOf(events[i]) = "chart.reference"
           => (i > 1 /\ TypeOf(events[i - 1]) = "tool.output")

C5_Witness ==
  /\ prog = "backend" /\ pc = "closed"
  /\ Len(trace) = 3
  /\ Len(events) = 4
  /\ TypeOf(events[2]) = "tool.output" /\ TypeOf(events[3]) = "chart.reference"
  /\ TypeOf(events[1]) = "text.delta" /\ TypeOf(events[4]) = "text.delta"

\* ---- helpers on the history ---------------------------------------------
\* the k-th line handled has been handled to its end: the extraction of the
\* last line is not pending (cur holds its tool output while it is)
Complete(k) == k < Len(trace) \/ cur = Null

ResultTypes == {S("response.function_call_result"), S("response.tool_result")}

\* a decoded tool-result frame of an analytics tool with a dict as output
IsAnalyticsResult(v) ==
  /\ IsObj(v) /\ Get(v, "type", EmptyStr) \in ResultTypes
  /\ Has(v, "result") /\ IsObj(v.o["result"])
  /\ Has(v.o["result"], "name") /\ IsStr(v.o["result"].o["name"])
  /\ IsAnalyticsTool(v.o["result"].o["name"])
  /\ Has(v.o["result"], "output") /\ IsObj(v.o["result"].o["output"])

OutputOf(v) == v.o["result"].o["output"]

Charts(ev) == SelectSeq(ev, LAMBDA e : TypeOf(e) = "chart.reference")

CoordNames == {"spaceId", "conversationId", "messageId", "attachmentId"}
NonEmptyCoords(ref) ==
  IsObj(ref) /\ \A k \in CoordNames : Has(ref, k) /\ Truthy(ref.o[k])

\* the coordinate set each pattern of section 4.3 reads off a tool output
Read0(out) ==
  IF ~(Has(out, "genie") /\ IsObj(out.o["genie"])) THEN Null
  ELSE LET g == out.o["genie"]
           atts == Get(g, "attachments", Null)
           first == IF IsList(atts) /\ atts.l # <<>> THEN atts.l[1] ELSE Null
           listed == IF IsObj(first) THEN Get(first, "attachment_id", Null) ELSE Null
       IN Coords(Get(g, "space_id", Null), Get(g, "conversation_id", Null),
                 Get(g, "message_id", Null),
                 IF Truthy(listed) THEN listed ELSE Get(g, "attachment_id", Null))
Read1(out) ==
  Coords(Get(out, "space_id", Null), Get(out, "conversation_id", Null),
         Get(out, "message_id", Null), Get(out, "attachment_id", Null))
Read2(out) ==
  IF Has(out, "result") /\ IsObj(out.o["result"]) THEN Read1(out.o["result"]) ELSE Null
Read3(out, svc) ==
  IF Has(out, "result") /\ IsObj(out.o["result"]) /\ Has(out.o["result"], "conversation_id")
  THEN get_genie_coordinates_from_conversation(
         svc, out.o["result"].o["conversation_id"], Get(out.o["result"], "space_id", Null)).ref
  ELSE IF Has(out, "conversation_id")
  THEN get_genie_coordinates_from_conversation(
         svc, out.o["conversation_id"], Get(out, "space_id", Null)).ref
  ELSE Null

\* the first pattern, in the fixed order, that gives a complete coordinate set
FirstPattern(out, svc) ==
  IF NonEmptyCoords(Read0(out)) THEN 0
  ELSE IF NonEmptyCoords(Read1(out)) THEN 1
  ELSE IF NonEmptyCoords(Read2(out)) THEN 2
  ELSE IF NonEmptyCoords(Read3(out, svc)) THEN 3
  ELSE 4
ReadBy(n, out, svc) ==
  CASE n = 0 -> Read0(out) [] n = 1 -> Read1(out) [] n = 2 -> Read2(out)
    [] n = 3 -> Read3(out, svc) [] OTHER -> Null

\* ---- C6 ----------------------------------------------------------------
\* C6: a tool-result frame of an analytics tool yields a chart.reference if
\* and only if four non-empty coordinates were resolved, and every
\* chart.reference carries four non-empty coordinates.
C6_ChartIffComplete ==
  prog = "backend" =>
    \A k \in 1..Len(trace) :
      (Complete(k) /\ trace[k].kind = "frame" /\ IsAnalyticsResult(trace[k].v)) =>
        /\ Len(Charts(trace[k].ev)) = 1 <=> FirstPattern(OutputOf(trace[k].v), service) < 4
        /\ \A j \in 1..Len(trace[k].ev) :
             TypeOf(trace[k].ev[j]) = "chart.reference" => NonEmptyCoords(trace[k].ev[j].genie)

\* ---- C7 ----------------------------------------------------------------
EventKinds == {"text.delta", "tool.call", "tool.output", "chart.reference", "error"}

BackendTypes ==
  {S("response.output_text.delta"), S("response.output_item.done"),
   S("response.output_item.added"), S("response.created"), S("response.done")} \cup ResultTypes
AppTypes == {S("text_delta"), S("tool_call"), S("tool_output"), S("error")}

DottedKind(type) ==
  CASE type = S("text_delta") -> "text.delta"
    [] type = S("tool_call") -> "tool.call"
    [] type = S("tool_output") -> "tool.output"
    [] OTHER -> "error"

\* a decoded frame that no branch of the program's cascade recognises
Unrecognized(v) ==
  /\ IsObj(v)
  /\ IF prog = "backend"
     THEN Get(v, "type", EmptyStr) \notin BackendTypes
            /\ ~(Has(v, "choices") /\ Truthy(v.o["choices"]))
     ELSE Get(v, "type", EmptyStr) \notin AppTypes

Succeeded0(out) == ~Pattern0(out).raised /\ Truthy(Pattern0(out).ref)

\* C9: the patterns are tried in a fixed order and the extractor stops at the
\* first that succeeds: when the nested genie pattern, the first of them,
\* has found its coordinates, the chart.reference carries exactly these, no
\* later pattern replaces or clears them, and no lookup is made.
C9_FirstPatternWins ==
  prog = "backend" =>
    \A k \in 1..Len(trace) :
      (Complete(k) /\ trace[k].kind = "frame" /\ IsAnalyticsResult(trace[k].v)
         /\ Succeeded0(OutputOf(trace[k].v))) =>
        /\ Len(Charts(trace[k].ev)) = 1
        /\ Charts(trace[k].ev)[1].genie = Pattern0(OutputOf(trace[k].v)).ref
        /\ trace[k].calls = <<>>

\* ---- C10 ---------------------------------------------------------------
\* choices[0].delta.content is a non-empty string
HasChoicesContent(v) ==
  /\ IsObj(v) /\ Has(v, "choices") /\ IsList(v.o["choices"]) /\ v.o["choices"].l # <<>>
  /\ LET choice == v.o["choices"].l[1] IN
       /\ IsObj(choice) /\ Has(choice, "delta") /\ IsObj(choice.o["delta"])
       /\ Has(choice.o["delta"], "content")
       /\ IsStr(choice.o["delta"].o["content"]) /\ Truthy(choice.o["delta"].o["content"])

ChoicesContent(v) == v.o["choices"].l[1].o["delta"].o["content"]

\* the discriminators that the cascade tests before the choices schema
TestedBeforeChoices ==
  {S("response.output_text.delta"), S("response.output_item.done")} \cup ResultTypes

\* C10 as stated: a frame with a non-empty choices[0].delta.content yields
\* exactly one text.delta with that content, whatever type discriminator of
\* the response.* schemas it also carries.
C10_ChoicesFirst ==
  prog = "backend" =>
    \A k \in 1..Len(trace) :
      (Complete(k) /\ trace[k].kind = "frame" /\ HasChoicesContent(trace[k].v))
        => trace[k].ev = <<TextDelta(ChoicesContent(trace[k].v))>>

\* C10 amended: that holds when the frame's type is none of
\* response.output_text.delta, response.output_item.done,
\* response.function_call_result, response.tool_result, which are tested
\* before the choices schema and then decide the events; it does hold for
\* response.output_item.added, which is tested after it.
C10_ChoicesBeforeAdded ==
  prog = "backend" =>
    \A k \in 1..Len(trace) :
      (Complete(k) /\ trace[k].kind = "frame" /\ HasChoicesContent(trace[k].v)) =>
        IF Get(trace[k].v, "type", EmptyStr) \in TestedBeforeChoices
        THEN \A j \in 1..Len(trace[k].ev) :
               trace[k].ev[j] # TextDelta(ChoicesContent(trace[k].v))
        ELSE trace[k].ev = <<TextDelta(ChoicesContent(trace[k].v))>>

C10_Witness ==
  /\ prog = "backend" /\ pc = "closed"
  /\ \E k \in 1..Len(trace) :
       /\ trace[k].v = F_ChoicesAndAdded
       /\ trace[k].ev = <<TextDelta(S("Hi"))>>

\* ---- C8 ----------------------------------------------------------------
\* a blank line, an SSE comment line, or the [DONE] marker
IsSkipLine(l) == Strip(l) = <<>> \/ l[1] = Colon \/ l = DoneLineText

\* the text of the lines ls, each with its "\n"
RECURSIVE Unlines(_)
Unlines(ls) == IF ls = <<>> THEN <<>> ELSE Head(ls) \o <<NL>> \o Unlines(Tail(ls))

\* the complete lines of a text without its blank, comment and [DONE] lines
WithoutSkipLines(t) == Unlines(SelectSeq(CompleteLines(t), LAMBDA l : ~IsSkipLine(l)))

\* the lines resp.aiter_lines() gives for a text
RECURSIVE AppLines(_)
AppLines(t) ==
  IF t = <<>> THEN <<>>
  ELSE <<NextLine(t).line>> \o AppLines(SubSeq(t, NextLine(t).used + 1, Len(t)))

\* what normalize yields for lines that all decode to JSON objects
RECURSIVE NormalizeAll(_)
NormalizeAll(ls) ==
  IF ls = <<>> THEN <<>> ELSE NormalizeLine(Head(ls)).ev \o NormalizeAll(Tail(ls))

\* C8: blank lines, comment lines and the [DONE] marker never produce an
\* event, wherever and however often they occur, and the events are those of
\* the text without them.
C8_SkipLinesSilent ==
  /\ \A k \in 1..Len(trace) : IsSkipLine(trace[k].line) => trace[k].ev = <<>>
  /\ (prog = "backend" /\ pc \in {"read", "drain", "closed"})
       => NonError(events) = SingleChunk(WithoutSkipLines(Consumed), service)
  /\ Finished => NonError(events) = SingleChunk(WithoutSkipLines(text), service)
  /\ (prog = "chatapp" /\ pc \in {"read", "closed"})
       => events = NormalizeAll(SelectSeq(AppLines(SubSeq(text, 1, pos)),
                                          LAMBDA l : ~IsSkipLine(l)))

C8_Witness ==
  /\ prog = "backend" /\ pc = "closed" /\ ~Failed
  /\ Len(trace) = 3
  /\ trace[1].line = DoneLineText
  /\ trace[2].line = CommentLine
  /\ trace[3].kind = "frame" /\ Len(trace[3].ev) = 2
  /\ Len(events) = 2

\* ---- C11 ---------------------------------------------------------------
\* list_messages raises, or no completed message gives an attachment
LookupFails(svc) ==
  \/ svc.listRaises
  \/ \A i \in 1..Len(svc.messages) :
       \/ svc.messages[i].status # "COMPLETED"
       \/ svc.messages[i].getRaises
       \/ \A j \in 1..Len(svc.messages[i].attachments) : ~Truthy(svc.messages[i].attachments[j])

\* the tool.output of a tool-result frame
OutputEventOf(v) ==
  ToolOutput(Get(v.o["result"], "name", S("agent")),
             PyStr(Get(v.o["result"], "output", S("Complete"))))

C12_NoSpaceNoLookup ==
  prog = "backend" =>
    \A k \in 1..Len(trace) :
      (Complete(k) /\ trace[k].kind = "frame" /\ IsAnalyticsResult(trace[k].v)
         /\ Has(OutputOf(trace[k].v), "conversation_id")
         /\ ~Truthy(Get(OutputOf(trace[k].v), "space_id", Null))) =>
        /\ trace[k].calls = <<>>
        /\ trace[k].ev = <<OutputEventOf(trace[k].v)>>

\* ---- C13 ---------------------------------------------------------------
\* C13: the args of every tool.call event of stream_events is a mapping.
C13_ArgsIsMapping ==
  prog = "backend" =>
    \A i \in 1..Len(events) : TypeOf(events[i]) = "tool.call" => IsObj(events[i].args)

\* ---- C14 ---------------------------------------------------------------
\* the name, whatever its case, contains genie, analytics, sales or query
NamesAnalytics(name) ==
  /\ IsStr(name)
  /\ \E i \in 1..Len(name.s) :
       name.s[i] \in {"genie", "Genie", "analytics", "Analytics", "sales", "SALES", "query", "Query"}

IsToolResult(v) ==
  /\ IsObj(v) /\ Get(v, "type", EmptyStr) \in ResultTypes
  /\ IsObj(Get(v, "result", EmptyObj))

\* C14: a tool-result frame whose tool name does not contain one of the
\* keywords yields exactly its tool.output: no chart.reference, no lookup,
\* whatever coordinates the output holds; a chart.reference or a lookup
\* occurs only for a name that contains a keyword.
C14_OnlyAnalyticsTools ==
  prog = "backend" =>
    \A k \in 1..Len(trace) :
      (Complete(k) /\ trace[k].kind = "frame") =>
        LET named == /\ IsToolResult(trace[k].v)
                     /\ NamesAnalytics(Get(Get(trace[k].v, "result", EmptyObj), "name", S("agent")))
        IN /\ (IsToolResult(trace[k].v) /\ ~named) =>
                (trace[k].ev = <<OutputEventOf(trace[k].v)>> /\ trace[k].calls = <<>>)
           /\ (Charts(trace[k].ev) # <<>> \/ trace[k].calls # <<>>) => named

C14_Witness ==
  /\ Finished
  /\ Len(trace) >= 1
  /\ trace[1].v = ToolResult(OtherName, Out_Conv)
  /\ trace[1].ev = <<ToolOutput(OtherName, PyStr(Out_Conv))>>
  /\ trace[1].calls = <<>>

\* ---- C15 ---------------------------------------------------------------
\* the consumer of stream_events has stopped iterating
Abandoned == prog = "backend" /\ gpc # "run"

ConnectionClosed == pc \in {"closed", "aborted"}

C15_NoWorkAfterAbandon ==
  [][Abandoned => (pos' = pos /\ buffer' = buffer /\ events' = events /\ trace' = trace)]_vars

C15_EventuallyClosed == Abandoned ~> ConnectionClosed

\* C15: once the consumer has stopped iterating, at whatever suspension
\* point, no chunk is read, no event is yielded and no lookup is made any
\* more, and the connection is eventually closed.
C15_AbandonClosesConnection == C15_NoWorkAfterAbandon /\ C15_EventuallyClosed

\* abandoned between the tool.output of a frame and its lookup, with text
\* still to come
C15_Witness ==
  /\ gpc = "gone" /\ pc = "aborted"
  /\ cur = Out_Conv /\ trace[Len(trace)].calls = <<>>
  /\ pos < Len(text)
  /\ Len(events) = 2

\* ---- C16 ---------------------------------------------------------------
\* what a call yields when it runs alone on its text
Alone(t) ==
  IF TransportFailure(env) # ""
  THEN <<ErrorEvent(Str(<<FailPrefix, TransportFailure(env)>>))>>
  ELSE SingleChunk(t, service)

\* C16: two calls of stream_events on the shared mas_client, interleaved at
\* their suspension points in any way, each yield the events they yield when
\* run alone on the same text.
C16_SessionsIndependent ==
  prog = "sessions" =>
    \A s \in Sessions :
      /\ sess.of[s].pc = "closed" => sess.of[s].events = Alone(sess.of[s].text)
      /\ sess.of[s].pc \in {"read", "drain"} =>
           sess.of[s].events =
             Alone(SubSeq(sess.of[s].text, 1, sess.of[s].pos - Len(sess.buffers[s])))

C16_Witness ==
  /\ prog = "sessions" /\ sess.mixed
  /\ \A s \in Sessions : sess.of[s].pc = "closed"
  /\ sess.of[1].events = <<TextDelta(S("Hi"))>>
  /\ Len(sess.of[2].events) = 2

\* ---- C17 ---------------------------------------------------------------
\* the token is missing or the response is not 2xx
AppEnvFails(e) == ~e.bearer \/ e.status \notin 200..299

AppEventsSoFar ==
  NormalizeAll(SelectSeq(AppLines(SubSeq(text, 1, pos)), LAMBDA l : Strip(l) # <<>>))

MarkerWithoutSpace(l) == l # <<>> /\ l[1] = DataColon /\ (Len(l) = 1 \/ l[2] # SP)

\* the same payload after `data: `
WithSpace(l) == <<DataColon, SP>> \o Tail(l)

\* C18: a line `data:` directly followed by its payload yields the events
\* of the same payload after `data: `, and [DONE] is dropped in either form.
C18_MarkerAlone ==
  \A k \in 1..Len(trace) :
    (Complete(k) /\ MarkerWithoutSpace(trace[k].line)) =>
      /\ prog = "backend" => trace[k].ev = EventsOfLine(WithSpace(trace[k].line), service)
      /\ prog = "chatapp" => trace[k].ev = NormalizeLine(WithSpace(trace[k].line)).ev
      /\ Tail(trace[k].line) = <<DoneMark>> => trace[k].ev = <<>>

\* ---- C19 ---------------------------------------------------------------
\* C19: every chart.reference has a string as title and a string as subtitle.
C19_TitleAndSubtitleStrings ==
  prog = "backend" =>
    \A i \in 1..Len(events) :
      TypeOf(events[i]) = "chart.reference" => (IsStr(events[i].title) /\ IsStr(events[i].subtitle))

\* ---- C20 ---------------------------------------------------------------
\* the output holds the four coordinates, not empty, under the key `data`
CoordsUnderData(out) ==
  /\ Has(out, "data") /\ IsObj(out.o["data"])
  /\ \A c \in CoordKeys : Has(out.o["data"], c) /\ Truthy(out.o["data"].o[c])

\* C20: four coordinates nested under `data` give a chart.reference with
\* these coordinates, as they do under `result`.
C20_CoordsUnderData ==
  prog = "backend" =>
    \A k \in 1..Len(trace) :
      (Complete(k) /\ trace[k].kind = "frame" /\ IsAnalyticsResult(trace[k].v)
         /\ CoordsUnderData(OutputOf(trace[k].v))) =>
        /\ Len(Charts(trace[k].ev)) = 1
        /\ Charts(trace[k].ev)[1].genie = FlatCoords(OutputOf(trace[k].v).o["data"])

\* ---- C21 ---------------------------------------------------------------
\* the get_message calls among the remote calls of a frame
Fetches(calls) == SelectSeq(calls, LAMBDA c : c.op = "get_message")

\* index of the newest message in COMPLETED state, 0 when there is none
NewestCompleted(svc) ==
  LET done == {i \in 1..Len(svc.messages) : svc.messages[i].status = "COMPLETED"}
  IN IF done = {} THEN 0 ELSE CHOOSE i \in done : \A j \in done : j <= i

\* message i is completed, its detail can be fetched, and it has an attachment id
Usable(svc, i) ==
  /\ svc.messages[i].status = "COMPLETED"
  /\ ~svc.messages[i].getRaises
  /\ \E j \in 1..Len(svc.messages[i].attachments) : Truthy(svc.messages[i].attachments[j])

\* index of the newest usable message, 0 when there is none
NewestUsable(svc) ==
  LET good == {i \in 1..Len(svc.messages) : Usable(svc, i)}
  IN IF good = {} THEN 0 ELSE CHOOSE i \in good : \A j \in good : j <= i

\* the first attachment id of message i that is not empty
FirstId(svc, i) ==
  LET a == svc.messages[i].attachments
      n == CHOOSE j \in 1..Len(a) : Truthy(a[j]) /\ \A h \in 1..(j - 1) : ~Truthy(a[h])
  IN a[n]

\* the ids of the completed messages from the newest down to message lo
RECURSIVE CompletedDownTo(_, _, _)
CompletedDownTo(svc, i, lo) ==
  IF i < lo \/ i = 0 THEN <<>>
  ELSE (IF svc.messages[i].status = "COMPLETED" THEN <<svc.messages[i].id>> ELSE <<>>)
         \o CompletedDownTo(svc, i - 1, lo)

FetchedIds(calls) == [i \in 1..Len(Fetches(calls)) |-> Fetches(calls)[i].id]

\* a frame whose extraction listed the messages of the conversation
Listed(k) ==
  /\ Complete(k) /\ trace[k].calls # <<>> /\ ~service.listRaises
  /\ trace[k].calls[1] = [op |-> "list_messages", space |-> service.space, conv |-> service.conv]

\* C21: the lookup fetches the detail of the newest COMPLETED message only,
\* and returns that message's id with the id of its first attachment; no
\* older message is fetched or supplies the coordinates.
C21_NewestCompletedOnly ==
  prog = "backend" =>
    \A k \in 1..Len(trace) :
      Listed(k) =>
        LET n == NewestCompleted(service) IN
        /\ FetchedIds(trace[k].calls) = IF n = 0 THEN <<>> ELSE <<service.messages[n].id>>
        /\ \A j \in 1..Len(Charts(trace[k].ev)) :
             Charts(trace[k].ev)[j].genie.o["messageId"] = S(service.messages[n].id)

\* C21 amended: the lookup goes through the COMPLETED messages newest-first
\* and fetches the detail of each until one can be fetched and has an
\* attachment with a non-empty id; it returns that message's id with its
\* first non-empty attachment id, and nothing when there is no such message.
C21_NewestUsable ==
  prog = "backend" =>
    \A k \in 1..Len(trace) :
      Listed(k) =>
        LET n == NewestUsable(service) IN
        /\ FetchedIds(trace[k].calls) =
             CompletedDownTo(service, Len(service.messages), IF n = 0 THEN 1 ELSE n)
        /\ IF n = 0 THEN trace[k].ev = <<OutputEventOf(trace[k].v)>>
           ELSE /\ Len(Charts(trace[k].ev)) = 1
                /\ Charts(trace[k].ev)[1].genie =
                     Coords(service.space, service.conv, S(service.messages[n].id),
                            FirstId(service, n))

C21_Witness ==
  /\ Finished /\ service = Svc_NewestRaises
  /\ Len(trace) >= 1
  /\ FetchedIds(trace[1].calls) = <<"m2", "m1">>
  /\ Len(trace[1].ev) = 2
  /\ trace[1].ev[2].genie = Coords(S("s1"), S("c1"), S("m1"), S("a7"))

\* ---- C22 ---------------------------------------------------------------
\* the last request was a GET /explore/schemas
LastGet == prog = "web" /\ web.phase = "up" /\ web.resp.op = "GET"

\* C22: a GET regenerates the manifest exactly when the cache is empty
\* (None) or older than 3600 seconds; otherwise it answers with the cached
\* manifest and leaves cache and timestamp alone.  When it replaces the
\* cache it sets the timestamp to the time of the request, as startup does,
\* and when regeneration raises it answers with the stale manifest if there
\* is one.
C22_CacheTtl ==
  /\ LastGet =>
       LET b == web.resp.before
           due == b.manifest = None \/ b.now - b.stamp > 3600
       IN /\ (web.resp.generated # "no") <=> due
          /\ ~due => /\ web.resp.code = 200 /\ web.resp.body = b.manifest
                     /\ web.manifest = b.manifest /\ web.stamp = b.stamp
          /\ web.manifest # b.manifest => (web.stamp = b.now /\ web.resp.body = web.manifest)
          /\ web.resp.generated = "raises" =>
               /\ web.manifest = b.manifest /\ web.stamp = b.stamp
               /\ b.manifest # None => (web.resp.code = 200 /\ web.resp.body = b.manifest)
               /\ b.manifest = None => web.resp.code = 500
  /\ (prog = "web" /\ web.phase = "up" /\ web.requests = 0 /\ web.manifest # None)
       => web.stamp = Epoch

\* a GET exactly 3600 seconds after the last generation is served from the
\* cache, and one a second later regenerates
C22_Witness ==
  /\ LastGet
  /\ web.resp.before.now - web.resp.before.stamp = 3601
  /\ web.resp.generated = "returns"
  /\ web.manifest = 2 /\ web.stamp = web.now

\* ---- C23 ---------------------------------------------------------------
\* C23: a POST /explore/schemas/refresh regenerates the manifest, replaces
\* cache and timestamp together and answers success; it answers 500 only
\* when regeneration fails, and then cache and timestamp are unchanged.
C23_ForceRefresh ==
  (prog = "web" /\ web.phase = "up" /\ web.resp.op = "POST") =>
    LET b == web.resp.before IN
    /\ web.resp.code = 500 <=> web.resp.generated = "raises"
    /\ web.resp.code = 500 => (web.manifest = b.manifest /\ web.stamp = b.stamp)
    /\ web.resp.code = 200 => (web.manifest # b.manifest /\ web.stamp = b.now)

\* ---- C24 ---------------------------------------------------------------
\* the pairs of the allow-list, written out
AllowList ==
  {[schema |-> "dominos_realistic", table |-> t] :
     t \in {"daily_sales_fact", "campaigns_dim", "campaign_performance_daily",
            "customer_acquisition_source", "marketing_spend_daily"}}
  \cup
  {[schema |-> "dominos_analytics", table |-> t] :
     t \in {"metric_cac_by_channel", "metric_arpu_by_segment", "metric_cohort_retention",
            "metric_gmv", "metric_channel_mix", "metric_attach_rate", "sales_monthly_summary",
            "channel_performance_summary", "customer_segment_summary",
            "product_performance_summary"}}

\* C24: GET /metrics/query runs SQL for an allow-listed schema/table pair
\* only; any other pair is answered 400, not 500, and no query is run.
C24_AllowListOnly ==
  prog = "web" =>
    /\ web.phase = "up" => web.ran \subseteq AllowList
    /\ (web.phase = "up" /\ web.resp.op = "QUERY") =>
         IF web.resp.body \in AllowList
         THEN web.resp.code \in {200, 500} /\ web.resp.body \in web.ran
         ELSE web.resp.code = 400 /\ web.ran = web.resp.before.ran

\* a table of the other schema's list is refused after a query has run
C24_Witness ==
  /\ prog = "web" /\ web.phase = "up" /\ web.resp.op = "QUERY"
  /\ web.resp.body = [schema |-> "dominos_realistic", table |-> "metric_gmv"]
  /\ web.resp.code = 400
  /\ web.ran = {[schema |-> "dominos_analytics", table |-> "metric_gmv"]}

\* ---- C25 ---------------------------------------------------------------
\* a tool output that is a nested genie object with the three ids and
\* nothing else, its attachments (if any) a list of objects
NestedGenieOnly(out) ==
  /\ IsObj(out) /\ DOMAIN out.o = {"genie"} /\ IsObj(out.o["genie"])
  /\ HasAll(out.o["genie"], {"space_id", "conversation_id", "message_id"})
  /\ Has(out.o["genie"], "attachments") =>
       /\ IsList(out.o["genie"].o["attachments"])
       /\ \A i \in 1..Len(out.o["genie"].o["attachments"].l) :
            IsObj(out.o["genie"].o["attachments"].l[i])

\* the first attachment's attachment_id, else the object's own attachment_id
AttachmentIdOf(genie_obj) ==
  LET atts == Get(genie_obj, "attachments", List(<<>>))
      listed == IF atts.l # <<>> THEN Get(atts.l[1], "attachment_id", Null) ELSE Null
  IN IF Truthy(listed) THEN listed ELSE Get(genie_obj, "attachment_id", Null)

\* C25: for a nested genie object with space_id, conversation_id and
\* message_id, one chart.reference with the first attachment's id, else the
\* object's own attachment_id, is emitted whenever that id is non-empty
\* (also when attachments is an empty list), and none when both are missing.
C25_NestedAttachmentId ==
  prog = "backend" =>
    \A k \in 1..Len(trace) :
      (Complete(k) /\ trace[k].kind = "frame" /\ IsAnalyticsResult(trace[k].v)
         /\ NestedGenieOnly(OutputOf(trace[k].v))) =>
        LET id == AttachmentIdOf(OutputOf(trace[k].v).o["genie"])
        IN IF Truthy(id)
           THEN /\ Len(Charts(trace[k].ev)) = 1
                /\ Charts(trace[k].ev)[1].genie.o["attachmentId"] = id
           ELSE Charts(trace[k].ev) = <<>>

\* ---- C26 ---------------------------------------------------------------
\* valid JSON that is not of an expected shape: not an object, or an item,
\* result or choices field of the wrong type
UnexpectedShape(v) ==
  \/ ~IsObj(v)
  \/ \E k \in {"item", "result"} : Has(v, k) /\ ~IsObj(v.o[k])
  \/ Has(v, "choices") /\ ~IsList(v.o["choices"])

\* C26: in stream_events and in normalize alike, handling a frame whose
\* payload is valid JSON of an unexpected shape raises nothing out of the
\* normalizer and yields no error event; the reader goes on with the next
\* line.
C26_OddShapeAbsorbed ==
  [][(Len(trace') = Len(trace) + 1
        /\ trace'[Len(trace')].kind = "frame"
        /\ UnexpectedShape(trace'[Len(trace')].v))
       => /\ pc' \in {"read", "drain"}
          /\ \A i \in 1..Len(trace'[Len(trace')].ev) : ~IsError(trace'[Len(trace')].ev[i])]_vars

\* ---- C27 ---------------------------------------------------------------
\* what follows the last "\n" of a text
RECURSIVE AfterLastNL(_)
AfterLastNL(t) ==
  IF t = <<>> \/ t[Len(t)] = NL THEN <<>>
  ELSE AfterLastNL(SubSeq(t, 1, Len(t) - 1)) \o <<t[Len(t)]>>

\* C27: stream_events handles the text up to the last newline received and
\* nothing else: when the response has ended, the lines handled are the
\* newline-terminated lines, what came after the last newline is still in
\* the buffer, unhandled, and has produced no event.
C27_TailDiscarded ==
  Finished =>
    /\ buffer = AfterLastNL(text)
    /\ Len(trace) = Len(CompleteLines(text))
    /\ \A k \in 1..Len(trace) : trace[k].line = CompleteLines(text)[k]
    /\ events = Flatten(trace)

\* the response ends with a text frame that has no newline after it
C27_Witness ==
  /\ Finished
  /\ buffer = DataLine(F_Text)
  /\ Len(trace) = 2 /\ Len(events) >= 2
  /\ \A i \in 1..Len(events) : TypeOf(events[i]) # "text.delta"

\* ---- C28 ---------------------------------------------------------------
\* C28: an upstream [DONE] marker does not end stream_events: the lines after
\* it are handled like any other line, and the event sequence ends only
\* when the response has ended or failed; a data: [DONE] line of the
\* response body is never a forwarded event: there is at most one, it is the
\* last line, and event_generator sends it once stream_events is exhausted.
C28_DoneDoesNotEnd ==
  prog = "backend" =>
    /\ pc = "closed" => (pos = Len(text) \/ Failed)
    /\ Finished =>
         \A k \in 1..Len(CompleteLines(text)) :
           (\E j \in 1..(k - 1) : CompleteLines(text)[j] = DoneLineText) =>
             /\ k <= Len(trace)
             /\ trace[k].line = CompleteLines(text)[k]
             /\ trace[k].ev = EventsOfLine(CompleteLines(text)[k], service)
    /\ \A i \in 1..Len(body) :
         IF i <= taken
         THEN body[i] = EventLine(events[i])
         ELSE i = Len(body) /\ gpc = "done"
    /\ \A i \in 1..Len(body) :
         body[i] = DoneLine => (i = Len(body) /\ pc = "closed" /\ taken = Len(events))

\* a frame after the marker is handled and forwarded before the done line
C28_Witness ==
  /\ Finished /\ gpc = "done"
  /\ Len(trace) >= 2
  /\ trace[1].line = DoneLineText
  /\ trace[2].line = DataLine(F_Text)
  /\ Len(events) >= 1
  /\ TypeOf(events[1]) = "text.delta"
  /\ body = [i \in 1..Len(events) |-> EventLine(events[i])] \o <<DoneLine>>

\* ---- C29 ---------------------------------------------------------------
CallsOf(op) == SelectSeq(renderer.calls, LAMBDA c : c.op = op)
UiOf(op) == SelectSeq(renderer.ui, LAMBDA u : u = op)
ErrorEventsYielded == SelectSeq(events, LAMBDA e : TypeOf(e) = "error")
Failures == SelectSeq(renderer.calls, LAMBDA c : c = Call("on_error", ProcessingFailure))

\* C29: once on_message has called renderer.start(), it ends in exactly one
\* of two ways.  When the event stream is exhausted without an exception,
\* finish() is called once, as the last call, the status message is removed,
\* and on_error has been called for the error events of the stream only.
\* When an exception is raised, on_error is called once with the failure, as
\* the last call, finish() is never called and the status message stays.
\* The text message is created at most once, on the first text.delta, right
\* before its first token is streamed.
C29_OneEnding ==
  (prog = "chatapp" /\ pc # "start") =>
    /\ renderer.calls # <<>> /\ renderer.calls[1] = Call("start", Null)
    /\ Len(CallsOf("start")) = 1
    /\ pc = "read" => (CallsOf("finish") = <<>> /\ Failures = <<>>)
    /\ pc = "closed" =>
         /\ Len(CallsOf("finish")) = 1
         /\ renderer.calls[Len(renderer.calls)] = Call("finish", Null)
         /\ renderer.status_msg = "removed" /\ Len(UiOf("status.remove")) = 1
         /\ Failures = <<>>
         /\ CallsOf("on_error")
              = [i \in 1..Len(ErrorEventsYielded) |-> Call("on_error", ErrorEventsYielded[i].message)]
    /\ pc = "raised" =>
         /\ CallsOf("finish") = <<>>
         /\ Len(Failures) = 1
         /\ renderer.calls[Len(renderer.calls)] = Call("on_error", ProcessingFailure)
         /\ renderer.status_msg = "sent" /\ UiOf("status.remove") = <<>>
    /\ Len(UiOf("text.send")) <= 1
    /\ Len(UiOf("text.send")) = 1 <=> CallsOf("on_text_delta") # <<>>
    /\ Len(UiOf("text.stream_token")) = Len(CallsOf("on_text_delta"))
    /\ \A i \in 1..Len(renderer.ui) :
         /\ renderer.ui[i] = "text.stream_token" => \E j \in 1..(i - 1) : renderer.ui[j] = "text.send"
         /\ renderer.ui[i] = "text.send" => renderer.ui[i + 1] = "text.stream_token"

\* the normal ending, after two text tokens and an error event of the stream
C29_Witness ==
  /\ prog = "chatapp" /\ pc = "closed"
  /\ Len(CallsOf("on_text_delta")) = 2
  /\ Len(CallsOf("on_error")) = 1
  /\ renderer.ui = <<"status.send", "text.send", "text.stream_token", "error.send",
                     "text.stream_token", "status.remove", "text.update">>

\* ---- C30 ---------------------------------------------------------------
RECURSIVE TotalChars(_)
TotalChars(ms) == IF ms = <<>> THEN 0 ELSE Len(Head(ms).content) + TotalChars(Tail(ms))

\* the messages between the system prompt and the current user message
Kept == SubSeq(chat.messages, 2, Len(chat.messages) - 1)

\* C30: the list built starts with the system prompt and ends with the
\* current user message; between them is a contiguous suffix of the history,
\* in order, of at most 2 * hist_max_turns messages and of at most
\* hist_max_chars characters in total; selection stops at the first message,
\* from the newest backwards, that would exceed the character budget.
C30_HistoryWindow ==
  (prog = "history" /\ chat.phase = "built") =>
    LET n == Len(chat.history)
        k == Len(Kept)
    IN /\ Len(chat.messages) >= 2
       /\ chat.messages[1] = Msg("system", system_prompt)
       /\ chat.messages[Len(chat.messages)] = Msg("user", chat.user_content)
       /\ k <= n /\ Kept = SubSeq(chat.history, n - k + 1, n)
       /\ k <= 2 * chat.hist_max_turns
       /\ TotalChars(Kept) <= chat.hist_max_chars
       /\ (k < n /\ k < 2 * chat.hist_max_turns)
            => TotalChars(Kept) + Len(chat.history[n - k].content) > chat.hist_max_chars

====
